---- MODULE Spec2Model ----
(***************************************************************************)
(* Bomberman simulation core: GameEngine (services/gameEngine.ts), the    *)
(* A* search it calls (services/aiService.ts) and the App shell that      *)
(* drives it (App, GameCanvas).                                            *)
(*                                                                         *)
(* Units.  Times are milliseconds.  Pixel coordinates are kept in         *)
(* thousandths of a pixel (MilliPx), so that the fractional enemy speeds  *)
(* of spawnEnemy (2.3, 2.16, 2.484, ...) stay exact integers.             *)
(* Random draws (Math.random()) are per-mille integers 0..999, so that    *)
(* `Math.random() < 0.35` reads `roll < 350`.                              *)
(***************************************************************************)
EXTENDS Integers, Sequences, FiniteSets, TLC

\* ------------------------------------------------------------ constants.ts
TILE_SIZE == 48
GRID_ROWS == 13
GRID_COLS == 15
PLAYER_SPEED_BASE == 5
ENEMY_SPEED_BASE == 2
BOMB_FUSE_MS == 2000
EXPLOSION_DURATION_MS == 600
INVULNERABILITY_MS == 2500

\* gameEngine.ts literals
RESPAWN_DELAY_MS == 1000
RESPAWN_INVULNERABILITY_MS == 3000
BOSS_HIT_COOLDOWN_MS == 1000
START_LIVES == 5
FINAL_LEVEL == 10
SUPER_BOMB_RANGE == 12
MAX_PLAYER_SPEED == 9
MAX_ITERATIONS == 500

\* TileType
EMPTY == 0
WALL_HARD == 1
WALL_SOFT == 2

MilliPx(px) == px * 1000
T == MilliPx(TILE_SIZE)
CANVAS_WIDTH == GRID_COLS * T
CANVAS_HEIGHT == GRID_ROWS * T

Abs(v) == IF v < 0 THEN -v ELSE v
Min(a, b) == IF a < b THEN a ELSE b
Max(a, b) == IF a > b THEN a ELSE b
\* Math.floor(v / TILE_SIZE) of a pixel coordinate
TileOf(v) == v \div T
\* Math.round(v / TILE_SIZE): floor(v / TILE_SIZE + 0.5)
RoundTile(v) == (2 * v + T) \div (2 * T)
\* Math.round(v) of a pixel coordinate
RoundPx(v) == ((v + 500) \div 1000) * 1000
\* Math.floor((v + TILE_SIZE / 2) / TILE_SIZE): the derived grid cell
CenterTile(v) == (v + T \div 2) \div T

\* dx * dx + dy * dy < limit * limit (resp. <=), arranged so that no
\* intermediate value leaves the 32-bit integer range
HypotLess(dx, dy, limit) ==
    Abs(dx) < limit /\ Abs(dy) < limit /\ dx * dx < limit * limit - dy * dy
HypotAtMost(dx, dy, limit) ==
    Abs(dx) <= limit /\ Abs(dy) <= limit /\ dx * dx <= limit * limit - dy * dy

RevSeq(q) == [i \in 1..Len(q) |-> q[Len(q) + 1 - i]]
RemoveAt(q, i) == [j \in 1..(Len(q) - 1) |-> IF j < i THEN q[j] ELSE q[j + 1]]

\* ------------------------------------------------------------------ grid
InGrid(col, row) == row >= 0 /\ row < GRID_ROWS /\ col >= 0 /\ col < GRID_COLS

\* initLevel, step 1: border and pillars are WALL_HARD, the three spawn cells
\* are EMPTY, and `soft` is the set of <<col,row>> cells where the density
\* draw Math.random() < min(density, 0.6) came out true.
IsSpawnCell(r, c) == (r = 1 /\ c = 1) \/ (r = 1 /\ c = 2) \/ (r = 2 /\ c = 1)

\* the grid generated without the pillar branch
GenerateGridWithoutPillars(soft) ==
    [r \in 0..(GRID_ROWS - 1) |->
        [c \in 0..(GRID_COLS - 1) |->
            IF r = 0 \/ c = 0 \/ r = GRID_ROWS - 1 \/ c = GRID_COLS - 1
                THEN WALL_HARD
            ELSE IF ~IsSpawnCell(r, c) /\ <<c, r>> \in soft
                THEN WALL_SOFT
            ELSE EMPTY]]

GenerateGrid(soft) ==
    [r \in 0..(GRID_ROWS - 1) |->
        [c \in 0..(GRID_COLS - 1) |->
            IF r = 0 \/ c = 0 \/ r = GRID_ROWS - 1 \/ c = GRID_COLS - 1
                THEN WALL_HARD
            ELSE IF r % 2 = 0 /\ c % 2 = 0
                THEN WALL_HARD
            ELSE IF ~IsSpawnCell(r, c) /\ <<c, r>> \in soft
                THEN WALL_SOFT
            ELSE EMPTY]]

BombAt(bs, col, row) == \E i \in 1..Len(bs) : bs[i].col = col /\ bs[i].row = row

\* ------------------------------------------------- movement and collision
\* isPointBlocked(x, y)
IsPointBlocked(g, bs, x, y) ==
    LET col == TileOf(x)
        row == TileOf(y)
    IN  IF ~InGrid(col, row) THEN TRUE
        ELSE IF g[row][col] # EMPTY THEN TRUE
        ELSE BombAt(bs, col, row)

\* the `overlaps` test of checkCollision: the player's inset rectangle
\* against a bomb's tile
PlayerOverlapsBomb(px, py, bomb) ==
    LET padding == MilliPx(8)
        rx == px + padding
        ry == py + padding
        rw == T - padding * 2
        rh == T - padding * 2
        bx == bomb.col * T
        by == bomb.row * T
    IN  rx < bx + T /\ rx + rw > bx /\ ry < by + T /\ ry + rh > by

\* a corner test that lets entities through soft walls
CornerBlockedByHardWallsOnly(g, bs, px, py, col, row, isPlayer) ==
    IF ~InGrid(col, row) THEN TRUE
    ELSE IF g[row][col] = WALL_HARD THEN TRUE
    ELSE \E i \in 1..Len(bs) :
            /\ bs[i].col = col /\ bs[i].row = row
            /\ ~(isPlayer /\ PlayerOverlapsBomb(px, py, bs[i]))

\* one corner of checkCollision's loop: out of the grid, a wall tile, or a
\* bomb on the tile that the player does not already overlap
CornerBlocked(g, bs, px, py, col, row, isPlayer) ==
    IF ~InGrid(col, row) THEN TRUE
    ELSE IF g[row][col] # EMPTY THEN TRUE
    ELSE \E i \in 1..Len(bs) :
            /\ bs[i].col = col /\ bs[i].row = row
            /\ ~(isPlayer /\ PlayerOverlapsBomb(px, py, bs[i]))

\* checkCollision(x, y, w, h, isPlayer); (px, py) is this.player.x/y
CheckCollision(g, bs, px, py, x, y, w, h, isPlayer) ==
    \/ CornerBlocked(g, bs, px, py, TileOf(x), TileOf(y), isPlayer)
    \/ CornerBlocked(g, bs, px, py, TileOf(x + w), TileOf(y), isPlayer)
    \/ CornerBlocked(g, bs, px, py, TileOf(x), TileOf(y + h), isPlayer)
    \/ CornerBlocked(g, bs, px, py, TileOf(x + w), TileOf(y + h), isPlayer)

Clamp(v, lo, hi) == Max(lo, Min(v, hi))

\* moveEntity(entity, dx, dy, speed), in its three stages.  (ex, ey) is the
\* entity's position on entry; (px, py) is this.player.x/y on entry, which
\* checkCollision reads for the bomb overlap test (the entity's own position,
\* as the move proceeds, when the entity is the player).
\* Horizontal Movement: the position after it
HorizontalMove(g, bs, px, py, ex, ey, isPlayer, dx, speed) ==
    LET padding == MilliPx(8)
        size == T - padding * 2
        nextX == ex + dx * speed
        leadingEdgeX == IF dx > 0 THEN nextX + padding + size ELSE nextX + padding
        topY == ey + padding
        bottomY == ey + padding + size
    IN  IF ~CheckCollision(g, bs, IF isPlayer THEN ex ELSE px, IF isPlayer THEN ey ELSE py,
                           nextX + padding, ey + padding, size, size, isPlayer)
            THEN [x |-> nextX, y |-> ey]
        ELSE IF isPlayer /\ dx # 0
            THEN \* Smart Corner Sliding (X-Axis)
                 IF IsPointBlocked(g, bs, leadingEdgeX, topY)
                        /\ ~IsPointBlocked(g, bs, leadingEdgeX, bottomY)
                     THEN [x |-> ex, y |-> ey + speed]
                 ELSE IF ~IsPointBlocked(g, bs, leadingEdgeX, topY)
                        /\ IsPointBlocked(g, bs, leadingEdgeX, bottomY)
                     THEN [x |-> ex, y |-> ey - speed]
                 ELSE [x |-> ex, y |-> ey]
        ELSE [x |-> ex, y |-> ey]

\* Vertical Movement: p is the position after the horizontal stage, nextY
\* the target computed before it
VerticalMove(g, bs, px, py, p, nextY, isPlayer, dy, speed) ==
    LET padding == MilliPx(8)
        size == T - padding * 2
        leadingEdgeY == IF dy > 0 THEN nextY + padding + size ELSE nextY + padding
        leftX == p.x + padding
        rightX == p.x + padding + size
    IN  IF ~CheckCollision(g, bs, IF isPlayer THEN p.x ELSE px, IF isPlayer THEN p.y ELSE py,
                           p.x + padding, nextY + padding, size, size, isPlayer)
            THEN [x |-> p.x, y |-> nextY]
        ELSE IF isPlayer /\ dy # 0
            THEN \* Smart Corner Sliding (Y-Axis)
                 IF IsPointBlocked(g, bs, leftX, leadingEdgeY)
                        /\ ~IsPointBlocked(g, bs, rightX, leadingEdgeY)
                     THEN [x |-> p.x + speed, y |-> p.y]
                 ELSE IF ~IsPointBlocked(g, bs, leftX, leadingEdgeY)
                        /\ IsPointBlocked(g, bs, rightX, leadingEdgeY)
                     THEN [x |-> p.x - speed, y |-> p.y]
                 ELSE p
        ELSE p

\* Bounds Check
BoundsCheck(p) ==
    [x |-> Clamp(p.x, 0, CANVAS_WIDTH - T), y |-> Clamp(p.y, 0, CANVAS_HEIGHT - T)]

MoveEntity(g, bs, px, py, ex, ey, isPlayer, dx, dy, speed) ==
    BoundsCheck(VerticalMove(g, bs, px, py,
                             HorizontalMove(g, bs, px, py, ex, ey, isPlayer, dx, speed),
                             ey + dy * speed, isPlayer, dy, speed))

\* --------------------------------------------------------------- state
\* The engine's fields keep their names.  Besides them:
\*   now        performance.now()
\*   timers     the due times of pending setTimeout respawn callbacks
\*   scheduled  requestAnimationFrame callbacks (this.loop) requested for
\*              the next display frame
\*   running    callbacks of the display frame in progress still to run
\*   ui, uiPaused  App's gameState and isPaused
\*   nextId     source of the ids (Math.random() in the code: fresh values)
\*   gameOverCalls, levelCompleteCalls, stats   what the three callbacks
\*              were called with: the flags passed to onGameOver since the
\*              run began, the number of onLevelComplete calls since
\*              initLevel, the last snapshot passed to onStatsUpdate
\*   inputEvents  the number of key, touch and button events so far
\*   pf         a call of findPath on its own: the arguments, whether the
\*              call has been made, and what it returned
\*   il         a call of initLevel on its own, from the generated grid on:
\*              the level, the grid, the enemies pushed, the attempts of
\*              the spawnEnemy call in progress, the position in the code
\*              and in the stream of Math.random() outcomes
\*   seed       the seeding of recalcPathTimer on its own: the level, the
\*              jitter draw (per mille), and the countdowns seeded for a
\*              boss and for another enemy
\*   ev         what the last update() did (a history record, never read
\*              by the program)
VARIABLES grid, player, bombs, explosions, powerUps, enemies,
          level, score, lives, gameTime,
          isPaused, isGameOver, isVictory, isLevelTransitioning, isLevelComplete,
          input, lastTime, animationId,
          now, timers, scheduled, running,
          ui, uiPaused, nextId,
          gameOverCalls, levelCompleteCalls, stats, ev, pauseSnap, inputEvents,
          pf, il, seed

engineVars == <<grid, player, bombs, explosions, powerUps, enemies,
                level, score, lives, gameTime,
                isPaused, isGameOver, isVictory, isLevelTransitioning, isLevelComplete,
                input, lastTime, animationId,
                now, timers, scheduled, running,
                ui, uiPaused, nextId,
                gameOverCalls, levelCompleteCalls, stats, ev, pauseSnap, inputEvents>>

vars == <<engineVars, pf, il, seed>>

\* the engine as one record, threaded through the operators below
Eng ==
    [grid |-> grid, player |-> player, bombs |-> bombs, explosions |-> explosions,
     powerUps |-> powerUps, enemies |-> enemies,
     level |-> level, score |-> score, lives |-> lives, gameTime |-> gameTime,
     isPaused |-> isPaused, isGameOver |-> isGameOver, isVictory |-> isVictory,
     isLevelTransitioning |-> isLevelTransitioning, isLevelComplete |-> isLevelComplete,
     input |-> input, lastTime |-> lastTime, animationId |-> animationId,
     now |-> now, timers |-> timers, scheduled |-> scheduled, running |-> running,
     ui |-> ui, uiPaused |-> uiPaused, nextId |-> nextId,
     gameOverCalls |-> gameOverCalls, levelCompleteCalls |-> levelCompleteCalls,
     stats |-> stats, ev |-> ev, pauseSnap |-> pauseSnap, inputEvents |-> inputEvents]

Commit(s) ==
    /\ grid' = s.grid /\ player' = s.player /\ bombs' = s.bombs
    /\ explosions' = s.explosions /\ powerUps' = s.powerUps /\ enemies' = s.enemies
    /\ level' = s.level /\ score' = s.score /\ lives' = s.lives /\ gameTime' = s.gameTime
    /\ isPaused' = s.isPaused /\ isGameOver' = s.isGameOver /\ isVictory' = s.isVictory
    /\ isLevelTransitioning' = s.isLevelTransitioning
    /\ isLevelComplete' = s.isLevelComplete
    /\ input' = s.input /\ lastTime' = s.lastTime /\ animationId' = s.animationId
    /\ now' = s.now /\ timers' = s.timers /\ scheduled' = s.scheduled
    /\ running' = s.running
    /\ ui' = s.ui /\ uiPaused' = s.uiPaused /\ nextId' = s.nextId
    /\ gameOverCalls' = s.gameOverCalls /\ levelCompleteCalls' = s.levelCompleteCalls
    /\ stats' = s.stats /\ ev' = s.ev /\ pauseSnap' = s.pauseSnap
    /\ inputEvents' = s.inputEvents
    /\ pf' = pf
    /\ il' = il
    /\ seed' = seed

\* the history record of one update()
NoEv ==
    [updates |-> 0,        \* update() runs in the current display frame / handler
     moved |-> {},         \* the player's move: [from, want, to], with the
                           \* direction, speed, grid and bombs it was made on
     carried |-> {},       \* ids of the bombs that entered the update with timer <= 0
     hit |-> {},           \* bombs a ray reached: [id, by] (the detonating bomb)
     exploded |-> {},      \* ids of the bombs detonated
     attempts |-> {},      \* placeBomb calls: the engine before and after
     burns |-> {},         \* explosions processed: whether the player's cell was
                           \* in it, the player's state, lives before and after,
                           \* whether it had taken a life before
     enemyMoved |-> {},    \* the enemies' moveEntity calls, as for `moved`
     phases |-> <<>>,      \* the steps of update() in the order they ran
     blasts |-> <<>>,      \* explodeBomb calls: the bomb, the grid and the bomb
                           \* cells it found, the cells of its Explosion
     attemptsHeld |-> 0,   \* placeBomb calls since the bomb input was last up
     repeats |-> 0,        \* press events that found the bomb input down
     heldTicks |-> 0,      \* updates with the bomb input down since the last
                           \* press event (these three outlive an update)
     startedAt |-> 0,      \* performance.now() at the last initLevel (outlives
                           \* an update)
     rolls |-> {},         \* the two draws of a destroyBlock call followed on
                           \* its own, with its cell
     killed |-> {},        \* ids of the enemies killed
     hits |-> {},          \* explosion cells met by a living enemy: the enemy
                           \* before and after, the score and time awarded
     lost |-> {},          \* lives lost: [at, inv], now and invulnerableUntil
     timeUp |-> {},        \* countdown expiries: the player's dead flag, whether it
                           \* was invulnerable, lives before; lives and isGameOver after
     lcFired |-> FALSE,    \* onLevelComplete called
     goBefore |-> FALSE]   \* isGameOver or isVictory was set when it was called

\* ------------------------------------------------------------ killPlayer
GetStats(s) == [score |-> s.score, lives |-> s.lives, level |-> s.level,
                timeLeft |-> s.gameTime]

\* onGameOver(victory): App.handleGameOver
OnGameOver(s, victory) ==
    [s EXCEPT !.gameOverCalls = Append(@, victory),
              !.ui = IF victory THEN "VICTORY" ELSE "GAME_OVER"]

\* onLevelComplete(): App.handleLevelComplete
OnLevelComplete(s) ==
    [s EXCEPT !.levelCompleteCalls = @ + 1, !.ui = "LEVEL_COMPLETE"]

\* onStatsUpdate(stats): App.handleStatsUpdate
OnStatsUpdate(s, st) == [s EXCEPT !.stats = st]

\* killPlayer without the invulnerability test
KillPlayerIgnoringInvulnerability(s) ==
    IF s.player.isDead THEN s
    ELSE
        LET s1 == [s EXCEPT !.lives = @ - 1,
                            !.player.isDead = TRUE,
                            !.ev.lost = @ \cup {[at |-> s.now,
                                                 inv |-> s.player.invulnerableUntil]}]
        IN  IF s1.lives <= 0
                THEN OnGameOver([s1 EXCEPT !.isGameOver = TRUE], FALSE)
                ELSE [s1 EXCEPT !.timers = Append(@, s.now + RESPAWN_DELAY_MS)]

KillPlayer(s) ==
    IF s.player.invulnerableUntil > s.now \/ s.player.isDead THEN s
    ELSE
        LET s1 == [s EXCEPT !.lives = @ - 1,
                            !.player.isDead = TRUE,
                            !.ev.lost = @ \cup {[at |-> s.now,
                                                 inv |-> s.player.invulnerableUntil]}]
        IN  IF s1.lives <= 0
                THEN OnGameOver([s1 EXCEPT !.isGameOver = TRUE], FALSE)
                ELSE [s1 EXCEPT !.timers = Append(@, s.now + RESPAWN_DELAY_MS)]

\* ------------------------------------------------------ bombs, explosions
\* placeBomb()
\* placeBomb without the test for a bomb on the player's cell
PlaceBombOnOccupiedCell(s) ==
    IF s.player.bombsCount >= s.player.maxBombs THEN s
    ELSE [s EXCEPT !.bombs = Append(@, [id |-> s.nextId, col |-> CenterTile(s.player.x),
                                        row |-> CenterTile(s.player.y),
                                        timer |-> BOMB_FUSE_MS,
                                        range |-> s.player.bombRange,
                                        ownerId |-> "player"]),
                   !.nextId = @ + 1,
                   !.player.bombsCount = @ + 1]

\* placeBomb without the capacity test
PlaceBombBeyondCapacity(s) ==
    IF BombAt(s.bombs, CenterTile(s.player.x), CenterTile(s.player.y)) THEN s
    ELSE [s EXCEPT !.bombs = Append(@, [id |-> s.nextId, col |-> CenterTile(s.player.x),
                                        row |-> CenterTile(s.player.y),
                                        timer |-> BOMB_FUSE_MS,
                                        range |-> s.player.bombRange,
                                        ownerId |-> "player"]),
                   !.nextId = @ + 1,
                   !.player.bombsCount = @ + 1]

\* placeBomb counting the attempt before it tests the player's cell
PlaceBombCountingFirst(s) ==
    IF s.player.bombsCount >= s.player.maxBombs THEN s
    ELSE IF BombAt(s.bombs, CenterTile(s.player.x), CenterTile(s.player.y))
        THEN [s EXCEPT !.player.bombsCount = @ + 1]
    ELSE [s EXCEPT !.bombs = Append(@, [id |-> s.nextId, col |-> CenterTile(s.player.x),
                                        row |-> CenterTile(s.player.y),
                                        timer |-> BOMB_FUSE_MS,
                                        range |-> s.player.bombRange,
                                        ownerId |-> "player"]),
                   !.nextId = @ + 1,
                   !.player.bombsCount = @ + 1]

PlaceBomb(s) ==
    IF s.player.bombsCount >= s.player.maxBombs THEN s
    ELSE
        LET col == CenterTile(s.player.x)
            row == CenterTile(s.player.y)
        IN  IF BombAt(s.bombs, col, row) THEN s
            ELSE [s EXCEPT !.bombs = Append(@, [id |-> s.nextId, col |-> col, row |-> row,
                                                timer |-> BOMB_FUSE_MS,
                                                range |-> s.player.bombRange,
                                                ownerId |-> "player"]),
                           !.nextId = @ + 1,
                           !.player.bombsCount = @ + 1]

\* the kind chosen with the thresholds of the two rarest kinds exchanged
PowerUpKindRareFirst(rand) ==
    IF rand > 960 THEN "TIME_BONUS"
    ELSE IF rand > 900 THEN "SUPER_BOMB"
    ELSE IF rand > 800 THEN "SPEED_UP"
    ELSE IF rand > 600 THEN "FIRE_UP"
    ELSE "BOMB_UP"

\* the kind chosen by destroyBlock for a kind roll (per mille)
PowerUpKind(rand) ==
    IF rand > 960 THEN "SUPER_BOMB"
    ELSE IF rand > 900 THEN "TIME_BONUS"
    ELSE IF rand > 800 THEN "SPEED_UP"
    ELSE IF rand > 600 THEN "FIRE_UP"
    ELSE "BOMB_UP"

\* a destroyBlock that scores and drops the power-up but leaves the wall
DestroyBlockLeavesWall(s, col, row, rnd) ==
    LET s1 == [s EXCEPT !.score = @ + 10]
    IN  IF rnd.spawn < 350
            THEN [s1 EXCEPT !.powerUps = Append(@, [col |-> col, row |-> row,
                                                    type |-> PowerUpKind(rnd.kind)])]
            ELSE s1

\* destroyBlock(col, row); rnd.spawn and rnd.kind are its two draws
DestroyBlock(s, col, row, rnd) ==
    LET s1 == [s EXCEPT !.grid[row][col] = EMPTY, !.score = @ + 10]
    IN  IF rnd.spawn < 350
            THEN [s1 EXCEPT !.powerUps = Append(@, [col |-> col, row |-> row,
                                                    type |-> PowerUpKind(rnd.kind)])]
            ELSE s1

\* this.bombs.findIndex(b => b.col === c && b.row === r), 0 for -1
FindBombIndex(bs, c, r) ==
    IF BombAt(bs, c, r)
        THEN CHOOSE i \in 1..Len(bs) :
                /\ bs[i].col = c /\ bs[i].row = r
                /\ \A j \in 1..(i - 1) : ~(bs[j].col = c /\ bs[j].row = r)
        ELSE 0

Directions ==
    <<[dx |-> 0, dy |-> -1, dir |-> "UP"], [dx |-> 0, dy |-> 1, dir |-> "DOWN"],
      [dx |-> -1, dy |-> 0, dir |-> "LEFT"], [dx |-> 1, dy |-> 0, dir |-> "RIGHT"]>>

\* a chain reaction that stops the ray but leaves the fuse of the bomb it reached
ForceDetonationLeavesFuse(s, hitBombIdx, bomb) ==
    [s EXCEPT !.ev.hit = @ \cup {[id |-> s.bombs[hitBombIdx].id, by |-> bomb.id]}]

\* hitBomb.timer = 0, for the bomb at index hitBombIdx reached by `bomb`
ForceDetonation(s, hitBombIdx, bomb) ==
    [s EXCEPT !.bombs[hitBombIdx].timer = 0,
              !.ev.hit = @ \cup {[id |-> s.bombs[hitBombIdx].id, by |-> bomb.id]}]

\* one ray of explodeBomb, from step i on; acc = [s, cells]
RECURSIVE Ray(_, _, _, _, _)
Ray(acc, bomb, d, i, rnd) ==
    LET c == bomb.col + d.dx * i
        r == bomb.row + d.dy * i
    IN  IF i > bomb.range THEN acc
        ELSE IF ~InGrid(c, r) THEN acc
        ELSE IF acc.s.grid[r][c] = WALL_HARD THEN acc
        ELSE
            LET tile == acc.s.grid[r][c]
                cells == Append(acc.cells, [col |-> c, row |-> r,
                                            isEnd |-> (i = bomb.range),
                                            direction |-> d.dir])
                hitBombIdx == FindBombIndex(acc.s.bombs, c, r)
            IN  IF hitBombIdx # 0
                    THEN [s |-> ForceDetonation(acc.s, hitBombIdx, bomb), cells |-> cells]
                ELSE IF tile = WALL_SOFT
                    THEN [s |-> DestroyBlock(acc.s, c, r, rnd), cells |-> cells]
                ELSE Ray([s |-> acc.s, cells |-> cells], bomb, d, i + 1, rnd)

\* this.explosions.push({center, cells, timer}) for the rays a of `bomb`,
\* detonated in the engine `before`
PushExplosion(before, bomb, a) ==
    [a.s EXCEPT !.explosions = Append(@, [center |-> [col |-> bomb.col,
                                                      row |-> bomb.row],
                                         cells |-> a.cells,
                                         timer |-> EXPLOSION_DURATION_MS,
                                         took |-> FALSE, id |-> bomb.id]),
                !.ev.blasts = Append(@, [id |-> bomb.id, col |-> bomb.col,
                                         row |-> bomb.row, range |-> bomb.range,
                                         grid |-> before.grid,
                                         bombCells |-> {<<before.bombs[i].col,
                                                          before.bombs[i].row>> :
                                                            i \in 1..Len(before.bombs)},
                                         cells |-> a.cells])]

\* explodeBomb(bomb)
ExplodeBomb(s, bomb, rnd) ==
    LET a0 == [s |-> s, cells |-> <<[col |-> bomb.col, row |-> bomb.row,
                                     isEnd |-> FALSE, direction |-> "NONE"]>>]
        a1 == Ray(a0, bomb, Directions[1], 1, rnd)
        a2 == Ray(a1, bomb, Directions[2], 1, rnd)
        a3 == Ray(a2, bomb, Directions[3], 1, rnd)
        a4 == Ray(a3, bomb, Directions[4], 1, rnd)
    IN  PushExplosion(s, bomb, a4)

\* update, step 3: for (let i = this.bombs.length - 1; i >= 0; i--)
\* (indices here are 1-based)
RECURSIVE BombLoop(_, _, _, _)
BombLoop(s, i, dt, rnd) ==
    IF i < 1 THEN s
    ELSE
        LET s1 == [s EXCEPT !.bombs[i].timer = @ - dt]
            bomb == s1.bombs[i]
        IN  IF bomb.timer <= 0
                THEN LET s2 == ExplodeBomb(s1, bomb, rnd)
                         s3 == [s2 EXCEPT
                                  !.bombs = RemoveAt(@, i),
                                  !.player.bombsCount =
                                      IF bomb.ownerId = "player" THEN @ - 1 ELSE @,
                                  !.ev.exploded = @ \cup {bomb.id}]
                     IN  BombLoop(s3, i - 1, dt, rnd)
                ELSE BombLoop(s1, i - 1, dt, rnd)

\* the enemy branch of the explosion cell test, for enemy j
\* the history entry of enemy j meeting an explosion cell: `before` as the
\* cell found the engine, `after` as it left it
HitEntry(before, after, j) ==
    [after EXCEPT !.ev.hits = @ \cup
        {[id |-> before.enemies[j].id, boss |-> before.enemies[j].isBoss,
          at |-> before.now, last |-> before.enemies[j].lastHitTime,
          lastAfter |-> after.enemies[j].lastHitTime,
          hp |-> before.enemies[j].hp, hpAfter |-> after.enemies[j].hp,
          maxHp |-> after.enemies[j].maxHp, dead |-> after.enemies[j].isDead,
          score |-> after.score - before.score,
          time |-> after.gameTime - before.gameTime]}]

\* the enemy hit without the boss cooldown
EnemyHitWithoutCooldown(s, j) ==
    LET enemy == s.enemies[j]
        s1 == [s EXCEPT !.enemies[j].hp = @ - 1, !.enemies[j].lastHitTime = s.now]
    IN  IF s1.enemies[j].hp <= 0
            THEN [s1 EXCEPT
                    !.ev.killed = @ \cup {enemy.id},
                    !.enemies[j].isDead = TRUE,
                    !.score = @ + (IF enemy.isBoss THEN 500 ELSE 100),
                    !.gameTime = @ + (IF enemy.isBoss THEN 30 ELSE 10)]
            ELSE s1

\* the body of `Check Enemy Hit` for a living enemy j on the cell
EnemyHit(s, j) ==
    LET enemy == s.enemies[j]
    IN  IF enemy.isBoss /\ (s.now - enemy.lastHitTime < BOSS_HIT_COOLDOWN_MS)
            THEN s
            ELSE LET s1 == [s EXCEPT !.enemies[j].hp = @ - 1,
                                     !.enemies[j].lastHitTime = s.now]
                 IN  IF s1.enemies[j].hp <= 0
                        THEN [s1 EXCEPT
                                !.ev.killed = @ \cup {enemy.id},
                                !.enemies[j].isDead = TRUE,
                                !.score = @ + (IF enemy.isBoss THEN 500 ELSE 100),
                                !.gameTime = @ + (IF enemy.isBoss THEN 30 ELSE 10)]
                        ELSE s1

HitEnemy(s, j, cell) ==
    LET enemy == s.enemies[j]
        enemyCol == CenterTile(enemy.x)
        enemyRow == CenterTile(enemy.y)
    IN  IF enemyCol = cell.col /\ enemyRow = cell.row /\ ~enemy.isDead
            THEN HitEntry(s, EnemyHit(s, j), j)
            ELSE s

RECURSIVE HitEnemies(_, _, _)
HitEnemies(s, j, cell) ==
    IF j > Len(s.enemies) THEN s
    ELSE HitEnemies(HitEnemy(s, j, cell), j + 1, cell)

\* exp.cells.forEach(cell => ...), from cell k on
RECURSIVE CellsLoop(_, _, _)
CellsLoop(s, cells, k) ==
    IF k > Len(cells) THEN s
    ELSE
        LET cell == cells[k]
            playerCenterCol == CenterTile(s.player.x)
            playerCenterRow == CenterTile(s.player.y)
            s1 == IF playerCenterCol = cell.col /\ playerCenterRow = cell.row
                     THEN KillPlayer(s) ELSE s
        IN  CellsLoop(HitEnemies(s1, 1, cell), cells, k + 1)

\* explosion i has been applied to the engine `before`: what it met and
\* what it cost is recorded, and the explosion remembers a life it took
AfterCells(before, after, i) ==
    [after EXCEPT
       !.explosions[i].took = @ \/ after.lives < before.lives,
       !.ev.burns = @ \cup
          {[overlap |-> \E k \in 1..Len(before.explosions[i].cells) :
                          /\ before.explosions[i].cells[k].col = before.player.gridX
                          /\ before.explosions[i].cells[k].row = before.player.gridY,
            dead |-> before.player.isDead,
            inv |-> before.player.invulnerableUntil > before.now,
            lives |-> before.lives, livesAfter |-> after.lives,
            again |-> before.explosions[i].took]}]

\* the loop over the explosions without their countdown
RECURSIVE ExplosionLoopWithoutCountdown(_, _, _)
ExplosionLoopWithoutCountdown(s, i, dt) ==
    IF i < 1 THEN s
    ELSE
        LET s2 == AfterCells(s, CellsLoop(s, s.explosions[i].cells, 1), i)
            s3 == IF s2.explosions[i].timer <= 0
                     THEN [s2 EXCEPT !.explosions = RemoveAt(@, i)]
                     ELSE s2
        IN  ExplosionLoopWithoutCountdown(s3, i - 1, dt)

\* update, step 4: for (let i = this.explosions.length - 1; i >= 0; i--)
RECURSIVE ExplosionLoop(_, _, _)
ExplosionLoop(s, i, dt) ==
    IF i < 1 THEN s
    ELSE
        LET s1 == [s EXCEPT !.explosions[i].timer = @ - dt]
            s2 == AfterCells(s1, CellsLoop(s1, s1.explosions[i].cells, 1), i)
            s3 == IF s2.explosions[i].timer <= 0
                     THEN [s2 EXCEPT !.explosions = RemoveAt(@, i)]
                     ELSE s2
        IN  ExplosionLoop(s3, i - 1, dt)

\* ---------------------------------------------------------- aiService.ts
\* heuristic(a, b)
Heuristic(aCol, aRow, bCol, bRow) == Abs(aCol - bCol) + Abs(aRow - bRow)

\* isWalkable without the loop over the bombs
IsWalkableIgnoringBombs(col, row, g, bombPoints, ignoreBombs) ==
    IF ~InGrid(col, row) THEN FALSE
    ELSE g[row][col] = EMPTY

\* isWalkable(col, row, grid, bombs, ignoreBombs)
IsWalkable(col, row, g, bombPoints, ignoreBombs) ==
    IF ~InGrid(col, row) THEN FALSE
    ELSE IF g[row][col] # EMPTY THEN FALSE
    ELSE ignoreBombs \/ ~BombAt(bombPoints, col, row)

\* a selection by the estimate alone: the first index of the lowest h
LowestIndexByEstimate(openSet) ==
    CHOOSE i \in 1..Len(openSet) :
        /\ \A j \in 1..Len(openSet) : openSet[j].h >= openSet[i].h
        /\ \A j \in 1..(i - 1) : openSet[j].h > openSet[i].h

\* the node selection of findPath: the first index of the lowest f
\* (the scan replaces the index only on a strictly lower f)
LowestIndex(openSet) ==
    CHOOSE i \in 1..Len(openSet) :
        /\ \A j \in 1..Len(openSet) : openSet[j].f >= openSet[i].f
        /\ \A j \in 1..(i - 1) : openSet[j].f > openSet[i].f

\* openSet.find(n => n.x === x && n.y === y), 0 for undefined
FindNode(openSet, x, y) ==
    IF \E i \in 1..Len(openSet) : openSet[i].x = x /\ openSet[i].y = y
        THEN CHOOSE i \in 1..Len(openSet) :
                /\ openSet[i].x = x /\ openSet[i].y = y
                /\ \A j \in 1..(i - 1) : ~(openSet[j].x = x /\ openSet[j].y = y)
        ELSE 0

\* the path read off the parent links without the node that has no parent
RECURSIVE ReconstructPathDroppingStart(_, _, _)
ReconstructPathDroppingStart(parent, cell, path) ==
    IF parent[cell] = <<>> THEN path
    ELSE ReconstructPathDroppingStart(parent, parent[cell],
                                      <<[col |-> cell[1], row |-> cell[2]]>> \o path)

\* the path read off the parent links, start first.  A node's parent is a
\* node already moved to the closed set, which is never changed again, so
\* the links are kept per cell: parent[<<x, y>>] is the parent's cell, or
\* <<>> for null.
RECURSIVE ReconstructPath(_, _, _)
ReconstructPath(parent, cell, path) ==
    LET path1 == <<[col |-> cell[1], row |-> cell[2]]>> \o path
    IN  IF parent[cell] = <<>> THEN path1
        ELSE ReconstructPath(parent, parent[cell], path1)

\* for (const neighbor of neighbors), from neighbour k on; st = [open, parent]
RECURSIVE RelaxNeighbors(_, _, _, _, _, _, _, _)
RelaxNeighbors(st, closedSet, current, neighbors, k, target, g, bombPoints) ==
    IF k > Len(neighbors) THEN st
    ELSE
        LET nb == neighbors[k]
            gScore == current.g + 1
            existing == FindNode(st.open, nb.x, nb.y)
            h == Heuristic(nb.x, nb.y, target.col, target.row)
            st1 ==
                IF <<nb.x, nb.y>> \in closedSet THEN st
                ELSE IF ~IsWalkable(nb.x, nb.y, g, bombPoints, FALSE) THEN st
                ELSE IF existing = 0
                    THEN [open |-> Append(st.open, [x |-> nb.x, y |-> nb.y, g |-> gScore,
                                                    h |-> h, f |-> gScore + h]),
                          parent |-> (<<nb.x, nb.y>> :> <<current.x, current.y>>)
                                        @@ st.parent]
                ELSE IF gScore < st.open[existing].g
                    THEN [open |-> [st.open EXCEPT
                                      ![existing].g = gScore,
                                      ![existing].f = gScore + st.open[existing].h],
                          parent |-> (<<nb.x, nb.y>> :> <<current.x, current.y>>)
                                        @@ st.parent]
                ELSE st
        IN  RelaxNeighbors(st1, closedSet, current, neighbors, k + 1, target, g, bombPoints)

NoPath == [found |-> FALSE, path |-> <<>>]

\* one pass of `while (openSet.length > 0)`; st = [open, parent, closed,
\* iterations, done, result, capped], done once findPath has returned,
\* capped if it returned at `iterations > MAX_ITERATIONS`
SearchStep(st, target, g, bombPoints) ==
    IF st.done THEN st
    ELSE IF Len(st.open) = 0 THEN [st EXCEPT !.done = TRUE, !.result = NoPath]
    ELSE IF st.iterations + 1 > MAX_ITERATIONS
        THEN [st EXCEPT !.done = TRUE, !.result = NoPath, !.capped = TRUE]
    ELSE
        LET lowestIndex == LowestIndex(st.open)
            current == st.open[lowestIndex]
        IN  IF current.x = target.col /\ current.y = target.row
                THEN [st EXCEPT
                        !.done = TRUE,
                        !.result = [found |-> TRUE,
                                    path |-> ReconstructPath(st.parent,
                                                             <<current.x, current.y>>,
                                                             <<>>)]]
                ELSE
                    LET closed1 == st.closed \cup {<<current.x, current.y>>}
                        neighbors == <<[x |-> current.x + 1, y |-> current.y],
                                       [x |-> current.x - 1, y |-> current.y],
                                       [x |-> current.x, y |-> current.y + 1],
                                       [x |-> current.x, y |-> current.y - 1]>>
                        st1 == RelaxNeighbors([open |-> RemoveAt(st.open, lowestIndex),
                                               parent |-> st.parent],
                                              closed1, current, neighbors, 1,
                                              target, g, bombPoints)
                    IN  [st EXCEPT !.open = st1.open, !.parent = st1.parent,
                                   !.closed = closed1, !.iterations = @ + 1]

\* n passes of the while loop (the passes after the return change nothing),
\* split in halves to keep the evaluation shallow
RECURSIVE SearchLoop(_, _, _, _, _)
SearchLoop(st, n, target, g, bombPoints) ==
    IF st.done \/ n = 0 THEN st
    ELSE IF n = 1 THEN SearchStep(st, target, g, bombPoints)
    ELSE SearchLoop(SearchLoop(st, n \div 2, target, g, bombPoints),
                    n - n \div 2, target, g, bombPoints)

\* findPath(start, target, grid, bombs): [found, path]; found = FALSE is null.
\* The loop returns within MAX_ITERATIONS + 1 passes, or one pass after the
\* open set ran empty.
SearchStart(start, target) ==
    LET h0 == Heuristic(start.col, start.row, target.col, target.row)
    IN  [open |-> <<[x |-> start.col, y |-> start.row, g |-> 0, h |-> h0, f |-> h0]>>,
         parent |-> (<<start.col, start.row>> :> <<>>),
         closed |-> {}, iterations |-> 0,
         done |-> FALSE, result |-> NoPath, capped |-> FALSE]

\* the search given up after ten passes
FindPathSearchCutShort(start, target, g, bombPoints) ==
    LET st == SearchLoop(SearchStart(start, target), 10, target, g, bombPoints)
    IN  IF st.done THEN st
        ELSE [st EXCEPT !.done = TRUE, !.result = NoPath, !.capped = TRUE]

\* the search as findPath leaves it at its return
FindPathSearch(start, target, g, bombPoints) ==
    SearchLoop(SearchStart(start, target), MAX_ITERATIONS + 2, target, g, bombPoints)

FindPath(start, target, g, bombPoints) ==
    FindPathSearch(start, target, g, bombPoints).result

\* ------------------------------------------------------------- enemy AI
\* the reaction time of updateEnemyAI
ReactionTime(lvl, isBoss) ==
    LET reactionBase == IF lvl >= 5 THEN 1500 - (lvl - 4) * 200 ELSE 1500
    IN  IF isBoss THEN 400 ELSE Max(400, reactionBase)

\* the countdown seeded at a replan; jitter is Math.random() * 200
RecalcDelay(lvl, isBoss, jitter) ==
    ReactionTime(lvl, isBoss) + (IF isBoss THEN 500 ELSE 300) + jitter

\* the Walker's candidate cells, in the code's order, filtered
WalkerTargets(g, bs, gridCol, gridRow) ==
    LET neighbors ==
            <<[col |-> gridCol + 1, row |-> gridRow], [col |-> gridCol - 1, row |-> gridRow],
              [col |-> gridCol, row |-> gridRow + 1], [col |-> gridCol, row |-> gridRow - 1],
              [col |-> gridCol + 2, row |-> gridRow], [col |-> gridCol - 2, row |-> gridRow],
              [col |-> gridCol, row |-> gridRow + 2], [col |-> gridCol, row |-> gridRow - 2]>>
        Valid(n) == /\ InGrid(n.col, n.row)
                    /\ g[n.row][n.col] = EMPTY
                    /\ ~BombAt(bs, n.col, n.row)
    IN  SelectSeq(neighbors, Valid)

\* the direction toward (tx, ty) used by both branches of updateEnemyAI
StepToward(from, to) ==
    IF Abs(from - to) > MilliPx(1) THEN (IF to > from THEN 1 ELSE -1) ELSE 0

PutEnemy(s, j, e) == [s EXCEPT !.enemies[j] = e]

\* this.moveEntity(enemy, dx, dy, enemy.speed)
MoveEnemy(s, e, dx, dy) ==
    MoveEntity(s.grid, s.bombs, s.player.x, s.player.y, e.x, e.y, FALSE, dx, dy, e.speed)

AtPosition(e, p) == [e EXCEPT !.x = p.x, !.y = p.y]

\* enemy j, found as e0, moved to p by moveEntity(enemy, dx, dy, enemy.speed)
EnemyMovedTo(s, j, e0, dx, dy, p) ==
    [PutEnemy(s, j, AtPosition(e0, p)) EXCEPT
        !.ev.enemyMoved = @ \cup
            {[id |-> e0.id,
              from |-> [x |-> e0.x, y |-> e0.y],
              want |-> [x |-> e0.x + dx * e0.speed, y |-> e0.y + dy * e0.speed],
              to |-> p,
              d |-> [dx |-> dx, dy |-> dy], speed |-> e0.speed,
              grid |-> s.grid, bombs |-> s.bombs]}]

\* updateEnemyAI, the branch `enemy.path.length > 0`
FollowPath(s, j, e0) ==
    LET nextStep == e0.path[1]
        targetX == nextStep.col * T
        targetY == nextStep.row * T
        dx0 == StepToward(e0.x, targetX)
        dy0 == StepToward(e0.y, targetY)
        xFirst == Abs(e0.x - targetX) > Abs(e0.y - targetY)
        dx == IF dx0 # 0 /\ dy0 # 0 /\ ~xFirst THEN 0 ELSE dx0
        dy == IF dx0 # 0 /\ dy0 # 0 /\ xFirst THEN 0 ELSE dy0
    IN  IF BombAt(s.bombs, nextStep.col, nextStep.row)
            THEN PutEnemy(s, j, [e0 EXCEPT !.path = <<>>])
        ELSE IF HypotLess(e0.x - targetX, e0.y - targetY, MilliPx(4))  \* distSq < 16
            THEN PutEnemy(s, j, [e0 EXCEPT
                                   !.x = targetX, !.y = targetY,
                                   !.path = Tail(@),
                                   !.recalcPathTimer = IF Len(e0.path) = 1 THEN 0 ELSE @])
        ELSE EnemyMovedTo(s, j, e0, dx, dy, MoveEnemy(s, e0, dx, dy))

\* the target of a replan: [some, cell]; some = FALSE is null
ChooseTarget(s, e, gridCol, gridRow, valid, rnd) ==
    IF e.type = "CHASER"
        THEN [some |-> TRUE, cell |-> [col |-> s.player.gridX, row |-> s.player.gridY]]
    ELSE IF Len(valid) > 0
        THEN [some |-> TRUE, cell |-> valid[(rnd.pick * Len(valid)) \div 1000 + 1]]
    ELSE [some |-> FALSE, cell |-> [col |-> gridCol, row |-> gridRow]]

\* the path taken over from findPath's result
AdoptPath(e, res, gridCol, gridRow) ==
    IF res.found /\ Len(res.path) > 0
        THEN [e EXCEPT !.path = IF res.path[1].col = gridCol /\ res.path[1].row = gridRow
                                   THEN Tail(res.path) ELSE res.path]
        ELSE e

\* the replan of an enemy e standing on (gridCol, gridRow) with its countdown
\* reseeded, toward target tg
PlanPath(s, e, gridCol, gridRow, tg) ==
    IF tg.some
        THEN AdoptPath(e,
                       FindPath([col |-> gridCol, row |-> gridRow], tg.cell, s.grid,
                                [i \in 1..Len(s.bombs) |->
                                    [col |-> s.bombs[i].col, row |-> s.bombs[i].row]]),
                       gridCol, gridRow)
        ELSE e

\* updateEnemyAI, the branch of an enemy without a path
Replan(s, j, e0, rnd) ==
    LET gridCol == RoundTile(e0.x)
        gridRow == RoundTile(e0.y)
        centerX == gridCol * T
        centerY == gridRow * T
    IN  IF ~HypotAtMost(e0.x - centerX, e0.y - centerY, MilliPx(2))  \* distSq > 4
            THEN EnemyMovedTo(s, j, e0, StepToward(e0.x, centerX), StepToward(e0.y, centerY),
                              MoveEnemy(s, e0, StepToward(e0.x, centerX),
                                        StepToward(e0.y, centerY)))
        ELSE IF e0.recalcPathTimer <= 0
            THEN PutEnemy(s, j,
                    PlanPath(s,
                             [e0 EXCEPT !.x = centerX, !.y = centerY,
                                        !.recalcPathTimer =
                                            RecalcDelay(s.level, e0.isBoss,
                                                        (rnd.jitter * 200) \div 1000)],
                             gridCol, gridRow,
                             ChooseTarget(s, e0, gridCol, gridRow,
                                          WalkerTargets(s.grid, s.bombs, gridCol, gridRow),
                                          rnd)))
        ELSE PutEnemy(s, j, [e0 EXCEPT !.x = centerX, !.y = centerY])

EnemyStep(s, j, e0, rnd) ==
    IF Len(e0.path) > 0 THEN FollowPath(s, j, e0) ELSE Replan(s, j, e0, rnd)

\* updateEnemyAI(enemy, dt), for enemy j; rnd.pick and rnd.jitter are the
\* draws of the target choice and of the countdown
UpdateEnemyAI(s, j, dt, rnd) ==
    EnemyStep(s, j, [s.enemies[j] EXCEPT !.recalcPathTimer = @ - dt], rnd)

RECURSIVE EnemiesAI(_, _, _, _)
EnemiesAI(s, j, dt, rnd) ==
    IF j > Len(s.enemies) THEN s
    ELSE EnemiesAI(UpdateEnemyAI(s, j, dt, rnd), j + 1, dt, rnd)

\* ------------------------------------------------------------- update
\* an applyPowerUp whose FireUp and SuperBomb also reach the bombs already laid
ApplyPowerUpToLiveBombs(s, p) ==
    LET s1 == [s EXCEPT !.score = @ + 50]
        Ranged(r) == [s1 EXCEPT !.player.bombRange = r,
                                !.bombs = [i \in 1..Len(s.bombs) |->
                                             [s.bombs[i] EXCEPT !.range = r]]]
    IN  CASE p.type = "BOMB_UP" -> [s1 EXCEPT !.player.maxBombs = @ + 1]
          [] p.type = "FIRE_UP" -> Ranged(s.player.bombRange + 1)
          [] p.type = "SPEED_UP" ->
                [s1 EXCEPT !.player.speed = Min(@ + MilliPx(1), MilliPx(MAX_PLAYER_SPEED))]
          [] p.type = "SUPER_BOMB" -> Ranged(SUPER_BOMB_RANGE)
          [] p.type = "TIME_BONUS" -> [s1 EXCEPT !.gameTime = @ + 30]
          [] OTHER -> s1

\* applyPowerUp(p)
ApplyPowerUp(s, p) ==
    LET s1 == [s EXCEPT !.score = @ + 50]
    IN  CASE p.type = "BOMB_UP" -> [s1 EXCEPT !.player.maxBombs = @ + 1]
          [] p.type = "FIRE_UP" -> [s1 EXCEPT !.player.bombRange = @ + 1]
          [] p.type = "SPEED_UP" ->
                [s1 EXCEPT !.player.speed = Min(@ + MilliPx(1), MilliPx(MAX_PLAYER_SPEED))]
          [] p.type = "SUPER_BOMB" -> [s1 EXCEPT !.player.bombRange = SUPER_BOMB_RANGE]
          [] p.type = "TIME_BONUS" -> [s1 EXCEPT !.gameTime = @ + 30]
          [] OTHER -> s1

\* update, step 6: for (let i = this.powerUps.length - 1; i >= 0; i--)
RECURSIVE PowerUpLoop(_, _)
PowerUpLoop(s, i) ==
    IF i < 1 THEN s
    ELSE
        LET p == s.powerUps[i]
        IN  IF s.player.gridX = p.col /\ s.player.gridY = p.row
                THEN PowerUpLoop([ApplyPowerUp(s, p) EXCEPT !.powerUps = RemoveAt(@, i)],
                                 i - 1)
                ELSE PowerUpLoop(s, i - 1)

\* Math.hypot(player.x - e.x, player.y - e.y) < TILE_SIZE * 0.7
Touches(pl, e) == HypotLess(pl.x - e.x, pl.y - e.y, (T * 7) \div 10)

\* update, step 7: this.enemies.forEach(e => ...), from enemy j on
RECURSIVE EnemyContactLoop(_, _)
EnemyContactLoop(s, j) ==
    IF j > Len(s.enemies) THEN s
    ELSE EnemyContactLoop(IF Touches(s.player, s.enemies[j]) THEN KillPlayer(s) ELSE s,
                          j + 1)

\* Math.floor((x + TILE_SIZE / 2) / TILE_SIZE) for both axes
DeriveCell(s) ==
    [s EXCEPT !.player.gridX = CenterTile(s.player.x),
              !.player.gridY = CenterTile(s.player.y)]

PlayerAt(s, p) == [s EXCEPT !.player.x = p.x, !.player.y = p.y]

\* the direction read off the input flags; dx and dy are never both set,
\* which leaves the 0.7071 scaling without effect
InputDirection(in) ==
    [dx |-> IF in.up \/ in.down THEN 0 ELSE IF in.left THEN -1 ELSE IF in.right THEN 1 ELSE 0,
     dy |-> IF in.up THEN -1 ELSE IF in.down THEN 1 ELSE 0]

\* the history entry of a player move to p
MovedTo(s, d, p) ==
    [PlayerAt(s, p) EXCEPT
        !.ev.moved = {[from |-> [x |-> s.player.x, y |-> s.player.y],
                       want |-> [x |-> s.player.x + d.dx * s.player.speed,
                                 y |-> s.player.y + d.dy * s.player.speed],
                       to |-> p,
                       d |-> d, speed |-> s.player.speed,
                       grid |-> s.grid, bombs |-> s.bombs]}]

MovePlayer(s, d) ==
    IF d.dx # 0 \/ d.dy # 0
        THEN MovedTo(s, d, MoveEntity(s.grid, s.bombs, s.player.x, s.player.y,
                                      s.player.x, s.player.y, TRUE, d.dx, d.dy,
                                      s.player.speed))
        ELSE [s EXCEPT !.player.x = RoundPx(@), !.player.y = RoundPx(@)]

\* update, step 1: player movement and derived cell
\* the step `name` of update() has run
Logged(s, name) == [s EXCEPT !.ev.phases = Append(@, name)]

MovePhase(s) == Logged(DeriveCell(MovePlayer(s, InputDirection(s.input))), "move")

\* what a placeBomb call may touch, and what it decides on
PlaceView(s) ==
    [bombs |-> s.bombs, bombsCount |-> s.player.bombsCount,
     maxBombs |-> s.player.maxBombs, bombRange |-> s.player.bombRange,
     col |-> CenterTile(s.player.x), row |-> CenterTile(s.player.y),
     grid |-> s.grid, score |-> s.score, explosions |-> s.explosions,
     powerUps |-> s.powerUps, lives |-> s.lives]

RecordAttempt(before, after) ==
    [after EXCEPT !.ev.attempts = @ \cup {[before |-> PlaceView(before),
                                           after |-> PlaceView(after)]}]

RunPlaceBomb(s) == RecordAttempt(s, PlaceBomb(s))

\* the history of the bomb input: an update that finds it down, a call of
\* placeBomb, a press event, a release event
HeldTick(s) == IF s.input.bomb THEN [s EXCEPT !.ev.heldTicks = @ + 1] ELSE s
Attempted(s) == [s EXCEPT !.ev.attemptsHeld = @ + 1]
Pressed(before, after) ==
    [after EXCEPT !.ev.repeats = IF before.input.bomb THEN @ + 1 ELSE @,
                  !.ev.heldTicks = 0]
Released(after) ==
    [after EXCEPT !.ev.attemptsHeld = 0, !.ev.repeats = 0, !.ev.heldTicks = 0]

\* bomb placement on the level of the input instead of its edge
PlacePhaseLevelTriggered(s) ==
    IF s.input.bomb
        THEN Logged(RunPlaceBomb(Attempted(HeldTick([s EXCEPT !.input.bombPressed = TRUE]))),
                    "place")
        ELSE HeldTick(s)

\* update, step 2: bomb placement
PlacePhase(s) ==
    IF s.input.bomb /\ ~s.input.bombPressed
        THEN Logged(RunPlaceBomb(Attempted(HeldTick([s EXCEPT !.input.bombPressed = TRUE]))),
                    "place")
        ELSE HeldTick(s)

\* a level-complete check that fires the callback without latching the flag
LevelCompleteCheckWithoutLatch(s) ==
    IF Len(s.enemies) = 0 /\ ~s.isVictory /\ ~s.isLevelTransitioning /\ ~s.isLevelComplete
        THEN OnLevelComplete([s EXCEPT !.ev.lcFired = TRUE,
                                       !.ev.goBefore = s.isGameOver \/ s.isVictory])
        ELSE s

\* update, step 5: the filter, the level-complete check, the enemy AI
LevelCompleteCheck(s) ==
    IF Len(s.enemies) = 0 /\ ~s.isVictory /\ ~s.isLevelTransitioning /\ ~s.isLevelComplete
        THEN OnLevelComplete([s EXCEPT !.isLevelComplete = TRUE,
                                       !.ev.lcFired = TRUE,
                                       !.ev.goBefore = s.isGameOver \/ s.isVictory])
        ELSE s

\* step 5 with the enemy AI run before the filter and the check
EnemyPhaseAIFirst(s, dt, rnd) ==
    LET Alive(e) == ~e.isDead
        s1 == IF ~s.isLevelComplete THEN Logged(EnemiesAI(s, 1, dt, rnd), "enemyAI") ELSE s
    IN  Logged(LevelCompleteCheck([s1 EXCEPT !.enemies = SelectSeq(@, Alive)]),
               "levelComplete")

EnemyPhase(s, dt, rnd) ==
    LET Alive(e) == ~e.isDead
        s1 == Logged(LevelCompleteCheck([s EXCEPT !.enemies = SelectSeq(@, Alive)]),
                     "levelComplete")
    IN  IF ~s1.isLevelComplete THEN Logged(EnemiesAI(s1, 1, dt, rnd), "enemyAI") ELSE s1

\* the history entry of a countdown expiry: s before killPlayer, k after it
TimeUpEntry(s, k) ==
    [k EXCEPT !.ev.timeUp = @ \cup {[dead |-> s.player.isDead,
                                     inv |-> s.player.invulnerableUntil > s.now,
                                     lives |-> s.lives,
                                     livesAfter |-> k.lives,
                                     over |-> k.isGameOver]}]

\* a countdown expiry that ends the run whatever lives are left
TimeCheckEndsRun(s) ==
    IF s.gameTime <= 0
        THEN TimeUpEntry(s, IF s.player.isDead THEN s
                            ELSE OnGameOver([s EXCEPT !.lives = @ - 1,
                                                      !.player.isDead = TRUE,
                                                      !.isGameOver = TRUE], FALSE))
        ELSE s

\* if (this.gameTime <= 0) this.killPlayer()
TimeCheck(s) == IF s.gameTime <= 0 THEN TimeUpEntry(s, KillPlayer(s)) ELSE s

\* update, the countdown: one decrement when a whole second was crossed
CountdownPhase(s, dt) ==
    IF (s.now \div 1000) # ((s.now - dt) \div 1000)
        THEN Logged(TimeCheck([s EXCEPT !.gameTime = @ - 1]), "countdown")
        ELSE s

\* the history record of an update that begins
BeginUpdate(s) ==
    [s EXCEPT !.ev = [NoEv EXCEPT
                        !.updates = s.ev.updates + 1,
                        !.attemptsHeld = s.ev.attemptsHeld,
                        !.startedAt = s.ev.startedAt,
                        !.repeats = s.ev.repeats,
                        !.heldTicks = s.ev.heldTicks,
                        !.carried = {s.bombs[i].id : i \in {k \in 1..Len(s.bombs) :
                                                              s.bombs[k].timer <= 0}}]]

BombPhase(s, dt, rnd) == Logged(BombLoop(s, Len(s.bombs), dt, rnd), "bombs")
ExplosionPhase(s, dt) == Logged(ExplosionLoop(s, Len(s.explosions), dt), "explosions")
PowerUpPhase(s) == Logged(PowerUpLoop(s, Len(s.powerUps)), "powerUps")
ContactPhase(s) ==
    IF s.player.invulnerableUntil < s.now
        THEN Logged(EnemyContactLoop(s, 1), "contact")
        ELSE s
StatsPhase(s) ==
    Logged(OnStatsUpdate(s, [score |-> s.score, lives |-> s.lives, level |-> s.level,
                             timeLeft |-> Max(0, s.gameTime)]),
           "stats")

\* update(dt)
Update(s, dt, rnd) ==
    StatsPhase(
      CountdownPhase(
        ContactPhase(
          PowerUpPhase(
            EnemyPhase(
              ExplosionPhase(
                BombPhase(PlacePhase(MovePhase(BeginUpdate(s))), dt, rnd),
                dt),
              dt, rnd))),
        dt))

\* ------------------------------------------------------ level and player
\* createPlayer() (direction, isMoving and animFrame are only drawn)
CreatePlayer ==
    [x |-> T, y |-> T, gridX |-> 1, gridY |-> 1,
     bombsCount |-> 0, maxBombs |-> 1, bombRange |-> 2,
     speed |-> MilliPx(PLAYER_SPEED_BASE), invulnerableUntil |-> 0, isDead |-> FALSE]

\* the enemy pushed by spawnEnemy for an accepted cell; d = [c, r, boss, type]
\* holds the cell and the two per-mille draws, id stands for the fresh
\* Math.random() value
NewEnemy(lvl, d, id) ==
    LET isBoss == lvl >= 3 /\ d.boss < 200
        hp == IF isBoss THEN 3 ELSE 1
        \* ENEMY_SPEED_BASE * 1.15 for a boss; * (1.0 + (level - 4) * 0.08) from level 5
        baseSpeed == IF isBoss THEN (MilliPx(ENEMY_SPEED_BASE) * 115) \div 100
                     ELSE MilliPx(ENEMY_SPEED_BASE)
        speedMult == IF lvl >= 5 THEN 100 + (lvl - 4) * 8 ELSE 100
    IN  [id |-> id, x |-> d.c * T, y |-> d.r * T,
         type |-> IF isBoss THEN "CHASER" ELSE IF d.type > 600 THEN "CHASER" ELSE "WALKER",
         isBoss |-> isBoss, hp |-> hp, maxHp |-> hp, lastHitTime |-> 0,
         path |-> <<>>, recalcPathTimer |-> 0, isDead |-> FALSE,
         speed |-> (baseSpeed * speedMult) \div 100]

\* the test without the distance from the spawn cell
SpawnAcceptsAnyEmptyCell(g, d) == g[d.r][d.c] = EMPTY

\* the test of spawnEnemy on a drawn cell
SpawnAccepts(g, d) == g[d.r][d.c] = EMPTY /\ Abs(d.r - 1) + Abs(d.c - 1) > 8

TotalEnemies(lvl) == 2 + Min(lvl, 8)

\* initLevel, step 2, over the stream `draws` of drawn cells: every accepted
\* draw spawns an enemy until the target count is reached
RECURSIVE SpawnLoop(_, _, _, _, _)
SpawnLoop(es, g, lvl, draws, k) ==
    IF Len(es) >= TotalEnemies(lvl) \/ k > Len(draws) THEN es
    ELSE SpawnLoop(IF SpawnAccepts(g, draws[k]) THEN Append(es, NewEnemy(lvl, draws[k], k))
                   ELSE es,
                   g, lvl, draws, k + 1)

\* initLevel(level); gen = [soft, draws] are the random outcomes
InitLevel(s, lvl, gen) ==
    LET g == GenerateGrid(gen.soft)
    IN  [s EXCEPT !.level = lvl,
                  !.gameTime = 120 + lvl * 15,
                  !.grid = g,
                  !.bombs = <<>>, !.explosions = <<>>, !.powerUps = <<>>,
                  !.enemies = SpawnLoop(<<>>, g, lvl, gen.draws, 1),
                  !.isLevelTransitioning = FALSE,
                  !.isLevelComplete = FALSE,
                  !.player.x = T, !.player.y = T,
                  !.player.invulnerableUntil = s.now + INVULNERABILITY_MS,
                  !.levelCompleteCalls = 0,
                  !.ev = [NoEv EXCEPT !.updates = s.ev.updates,
                                      !.attemptsHeld = s.ev.attemptsHeld,
                                      !.startedAt = s.now,
                                      !.repeats = s.ev.repeats,
                                      !.heldTicks = s.ev.heldTicks]]

\* ------------------------------------------------------------ frame loop
\* this.loop(timestamp).  animationId is 0 for null and 1 for a request id
\* (only its truthiness is ever read).
Loop(s, timestamp, rnd) ==
    IF s.animationId = 0 /\ s.isPaused THEN s
    ELSE
        LET deltaTime == timestamp - s.lastTime
            s1 == [s EXCEPT !.lastTime = timestamp]
            s2 == IF ~s1.isPaused /\ ~s1.isGameOver /\ ~s1.isVictory /\ ~s1.isLevelComplete
                     THEN Update(s1, deltaTime, rnd)
                     ELSE s1
        IN  [s2 EXCEPT !.animationId = 1, !.scheduled = @ + 1]

\* startGame()
StartGame(s, rnd) ==
    Loop([s EXCEPT !.isPaused = FALSE, !.lastTime = s.now, !.pauseSnap = <<>>],
         s.now, rnd)

\* restartGame()
RestartGameOp(s, gen, rnd) ==
    LET s1 == [s EXCEPT !.level = 1, !.score = 0, !.lives = START_LIVES,
                        !.player = CreatePlayer,
                        !.isGameOver = FALSE, !.isVictory = FALSE,
                        !.isLevelTransitioning = FALSE, !.isLevelComplete = FALSE,
                        !.gameOverCalls = <<>>]
    IN  StartGame(InitLevel(s1, 1, gen), rnd)

\* proceedToNextLevel()
ProceedToNextLevelOp(s, gen, rnd) ==
    LET s1 == [s EXCEPT !.isLevelComplete = FALSE, !.isLevelTransitioning = FALSE,
                        !.lives = @ + 1]
    IN  IF s1.level >= FINAL_LEVEL
            THEN OnGameOver([s1 EXCEPT !.isVictory = TRUE], TRUE)
            ELSE LET s2 == InitLevel(s1, s1.level + 1, gen)
                 IN  StartGame(OnStatsUpdate(s2, GetStats(s2)), rnd)

\* the fields the pause is said to freeze
Sim(s) ==
    [x |-> s.player.x, y |-> s.player.y, isDead |-> s.player.isDead,
     invulnerableUntil |-> s.player.invulnerableUntil, lives |-> s.lives,
     bombs |-> s.bombs, explosions |-> s.explosions, enemies |-> s.enemies,
     score |-> s.score, gameTime |-> s.gameTime]

\* pauseGame(paused)
PauseGameOp(s, paused) ==
    [s EXCEPT !.isPaused = paused,
              !.pauseSnap = IF ~paused THEN <<>>
                            ELSE IF s.isPaused THEN @ ELSE <<Sim(s)>>]

\* the respawn callback that killPlayer hands to setTimeout
RespawnCallback(s) ==
    LET s1 == [s EXCEPT !.player.x = T, !.player.y = T,
                        !.player.isDead = FALSE,
                        !.player.invulnerableUntil = s.now + RESPAWN_INVULNERABILITY_MS]
    IN  OnStatsUpdate(s1, GetStats(s1))

\* -------------------------------------------------------------- bounds
\* The horizon of a run, in tenths of a second after its first state.
HorizonTenths == 25
\* performance.now() at the first state (any page time will do)
StartNow == 300 * 1000
Horizon == StartNow + HorizonTenths * 100
\* the horizon of a run with a long pause, in tenths of a second
LongHorizonTenths == 50
LongHorizon == StartNow + LongHorizonTenths * 100
\* key, touch and button events in a run
MaxInputEvents == 3
\* frame intervals (deltaTime) tried
DtSet == {500}
\* keys and touch buttons pressed and released
Keys == {"right", "down"}
VirtualKeys == {"BOMB"}
\* outcomes of Math.random() tried within one update (per mille)
RandomDraws ==
    {[spawn |-> 0, kind |-> 0, pick |-> 0, jitter |-> 0],
     [spawn |-> 999, kind |-> 999, pick |-> 999, jitter |-> 500]}
\* outcomes of initLevel's draws tried: soft walls, and the stream of
\* enemy cells (two of them rejected: the spawn cell, a pillar)
SoftLayout == {<<3, 1>>, <<5, 1>>, <<3, 3>>, <<5, 5>>, <<7, 3>>, <<9, 9>>}
EnemyDraws ==
    <<[c |-> 1, r |-> 1, boss |-> 999, type |-> 0],
      [c |-> 13, r |-> 11, boss |-> 999, type |-> 999],
      [c |-> 2, r |-> 2, boss |-> 999, type |-> 0],
      [c |-> 13, r |-> 1, boss |-> 100, type |-> 0],
      [c |-> 1, r |-> 11, boss |-> 999, type |-> 999],
      [c |-> 11, r |-> 11, boss |-> 999, type |-> 0],
      [c |-> 13, r |-> 9, boss |-> 999, type |-> 999],
      [c |-> 9, r |-> 11, boss |-> 100, type |-> 0],
      [c |-> 13, r |-> 3, boss |-> 999, type |-> 999],
      [c |-> 11, r |-> 9, boss |-> 999, type |-> 0],
      [c |-> 13, r |-> 7, boss |-> 999, type |-> 999],
      [c |-> 7, r |-> 11, boss |-> 999, type |-> 0]>>
LevelGens == {[soft |-> SoftLayout, draws |-> EnemyDraws]}

NoInput == [up |-> FALSE, down |-> FALSE, left |-> FALSE, right |-> FALSE,
            bomb |-> FALSE, bombPressed |-> FALSE]

\* ---------------------------------------------------------------- Init
\* new GameEngine(...): the field initialisers, createPlayer(), initLevel(1)
Construct(gen) ==
    InitLevel([grid |-> GenerateGrid({}), player |-> CreatePlayer,
               bombs |-> <<>>, explosions |-> <<>>, powerUps |-> <<>>, enemies |-> <<>>,
               level |-> 1, score |-> 0, lives |-> START_LIVES, gameTime |-> 0,
               isPaused |-> FALSE, isGameOver |-> FALSE, isVictory |-> FALSE,
               isLevelTransitioning |-> FALSE, isLevelComplete |-> FALSE,
               input |-> NoInput, lastTime |-> 0, animationId |-> 0,
               now |-> StartNow, timers |-> <<>>, scheduled |-> 0, running |-> 0,
               ui |-> "PLAYING", uiPaused |-> FALSE, nextId |-> 1,
               gameOverCalls |-> <<>>, levelCompleteCalls |-> 0,
               stats |-> [score |-> 0, lives |-> 3, level |-> 1, timeLeft |-> 70],
               ev |-> NoEv, pauseSnap |-> <<>>, inputEvents |-> 0],
              1, gen)

\* GameCanvas's effect: the engine is constructed and started
Mounted(gen, rnd) == StartGame(Construct(gen), rnd)

\* A run in progress: the engine mounted as above and played on to level
\* sc.level.  One more frame loop was started by every proceedToNextLevel,
\* the invulnerability window of the level start is over, the soft walls
\* sc.cleared are blown away, the player stands in row 1 at pixel sc.px with
\* the bombs sc.bombs laid (their fuses partly burnt), the power-ups
\* sc.powerUps dropped and not yet taken, and the enemies left are sc.enemies.
EnemyOn(lvl, c, r, type, id) ==
    NewEnemy(lvl, [c |-> c, r |-> r, boss |-> 999,
                   type |-> IF type = "CHASER" THEN 999 ELSE 0], id)

Snapshot(m, sc) ==
        [m EXCEPT !.level = sc.level,
                  !.lives = sc.lives,
                  !.gameTime = sc.gameTime,
                  !.score = sc.score,
                  !.scheduled = sc.level,
                  !.grid = [r \in DOMAIN m.grid |->
                              [c \in DOMAIN m.grid[r] |->
                                 IF <<c, r>> \in sc.cleared THEN EMPTY ELSE m.grid[r][c]]],
                  !.player = [CreatePlayer EXCEPT
                                !.x = MilliPx(sc.px),
                                !.gridX = CenterTile(MilliPx(sc.px)),
                                !.maxBombs = sc.maxBombs,
                                !.bombsCount = Len(sc.bombs),
                                !.invulnerableUntil = StartNow - 1],
                  !.bombs = [i \in 1..Len(sc.bombs) |->
                               [id |-> i, col |-> sc.bombs[i].col, row |-> sc.bombs[i].row,
                                timer |-> sc.bombs[i].timer, range |-> 2,
                                ownerId |-> "player"]],
                  !.nextId = Len(sc.bombs) + 1,
                  !.powerUps = sc.powerUps,
                  !.enemies = sc.enemies,
                  !.stats = [score |-> sc.score, lives |-> sc.lives, level |-> sc.level,
                             timeLeft |-> sc.gameTime],
                  !.ev = NoEv]

InProgress(sc, gen, rnd) == Snapshot(Mounted(gen, rnd), sc)

\* a Walker in the far corner, its next replan one and a half seconds away
FarWalker(lvl) == [EnemyOn(lvl, 13, 11, "WALKER", 2) EXCEPT !.recalcPathTimer = 1500]
\* a boss that stays where it is for the next three seconds
BossOn(lvl, c, r, id) ==
    [NewEnemy(lvl, [c |-> c, r |-> r, boss |-> 0, type |-> 0], id)
        EXCEPT !.recalcPathTimer = 3000]
\* a Chaser two pixels short of touching a player on the spawn cell, walking
\* the last step of its path
Closing(lvl) ==
    [EnemyOn(lvl, 1, 1, "CHASER", 1) EXCEPT !.y = MilliPx(83),
                                         !.path = <<[col |-> 1, row |-> 1]>>,
                                         !.recalcPathTimer = 1500]

Scenarios ==
    {\* a bomb on the spawn cell about to go off, the player one cell right
     \* of it with a second bomb to lay
     [level |-> 1, lives |-> 3, gameTime |-> 100, score |-> 60, px |-> 96,
      maxBombs |-> 2, cleared |-> {<<3, 3>>},
      powerUps |-> <<>>,
      bombs |-> <<[col |-> 1, row |-> 1, timer |-> 500]>>,
      enemies |-> <<FarWalker(1)>>],
     \* the player on its own bomb, the last two enemies below it
     [level |-> 1, lives |-> 2, gameTime |-> 100, score |-> 100, px |-> 48,
      maxBombs |-> 1, cleared |-> {},
      powerUps |-> <<>>,
      bombs |-> <<[col |-> 1, row |-> 1, timer |-> 500]>>,
      enemies |-> <<EnemyOn(1, 1, 2, "WALKER", 1), EnemyOn(1, 1, 3, "WALKER", 2)>>],
     \* the last enemy within reach of a bomb about to go off, a second bomb
     \* laid later, the player out of reach of both
     [level |-> 1, lives |-> 3, gameTime |-> 100, score |-> 200, px |-> 192,
      maxBombs |-> 2, cleared |-> {},
      powerUps |-> <<>>,
      bombs |-> <<[col |-> 1, row |-> 1, timer |-> 500],
                  [col |-> 9, row |-> 1, timer |-> 1900]>>,
      enemies |-> <<EnemyOn(1, 1, 3, "WALKER", 1)>>],
     \* the same on the last life, one enemy left
     [level |-> 1, lives |-> 1, gameTime |-> 100, score |-> 200, px |-> 48,
      maxBombs |-> 1, cleared |-> {},
      powerUps |-> <<>>,
      bombs |-> <<[col |-> 1, row |-> 1, timer |-> 500]>>,
      enemies |-> <<EnemyOn(1, 1, 3, "WALKER", 2)>>],
     \* the same on the last life of the last level
     [level |-> FINAL_LEVEL, lives |-> 1, gameTime |-> 100, score |-> 200, px |-> 48,
      maxBombs |-> 1, cleared |-> {},
      powerUps |-> <<>>,
      bombs |-> <<[col |-> 1, row |-> 1, timer |-> 500]>>,
      enemies |-> <<EnemyOn(FINAL_LEVEL, 1, 3, "CHASER", 2)>>],
     \* one second left on the countdown, the player walked off a fresh bomb
     [level |-> 1, lives |-> 2, gameTime |-> 1, score |-> 0, px |-> 88,
      maxBombs |-> 1, cleared |-> {},
      powerUps |-> <<>>,
      bombs |-> <<[col |-> 1, row |-> 1, timer |-> 1900]>>,
      enemies |-> <<FarWalker(1)>>],
     \* one second left on the countdown of the last life
     [level |-> 1, lives |-> 1, gameTime |-> 1, score |-> 0, px |-> 48,
      maxBombs |-> 1, cleared |-> {},
      powerUps |-> <<>>,
      bombs |-> <<>>,
      enemies |-> <<FarWalker(1)>>],
     \* a Chaser closing in on the player
     [level |-> 1, lives |-> 2, gameTime |-> 100, score |-> 0, px |-> 48,
      maxBombs |-> 1, cleared |-> {},
      powerUps |-> <<>>,
      bombs |-> <<>>,
      enemies |-> <<Closing(1), FarWalker(1)>>],
     \* a FireUp dropped one step ahead of a player that walked off its bomb
     [level |-> 1, lives |-> 3, gameTime |-> 100, score |-> 10, px |-> 115,
      maxBombs |-> 2, cleared |-> {<<3, 1>>},
      powerUps |-> <<[col |-> 3, row |-> 1, type |-> "FIRE_UP"]>>,
      bombs |-> <<[col |-> 1, row |-> 1, timer |-> 1900]>>,
      enemies |-> <<FarWalker(1)>>],
     \* level 3: a boss on (1,3) within reach of three bombs that go off a
     \* second apart, the player out of their reach
     [level |-> 3, lives |-> 3, gameTime |-> 100, score |-> 0, px |-> 192,
      maxBombs |-> 3, cleared |-> {},
      powerUps |-> <<>>,
      bombs |-> <<[col |-> 1, row |-> 1, timer |-> 500],
                  [col |-> 1, row |-> 5, timer |-> 1500],
                  [col |-> 2, row |-> 3, timer |-> 2500]>>,
      enemies |-> <<BossOn(3, 1, 3, 1), FarWalker(3)>>],
     \* the player standing on a fresh bomb with a second one to lay
     [level |-> 1, lives |-> 3, gameTime |-> 100, score |-> 0, px |-> 48,
      maxBombs |-> 2, cleared |-> {},
      powerUps |-> <<>>,
      bombs |-> <<[col |-> 1, row |-> 1, timer |-> 1900]>>,
      enemies |-> <<FarWalker(1)>>]}

Starts ==
    {Mounted(gen, rnd) : gen \in LevelGens, rnd \in RandomDraws}
        \cup {InProgress(sc, gen, rnd) :
                sc \in Scenarios, gen \in LevelGens, rnd \in RandomDraws}

\* no findPath call of its own
NoQuery == [start |-> [col |-> 0, row |-> 0], target |-> [col |-> 0, row |-> 0],
            grid |-> <<>>, bombPoints |-> <<>>, called |-> FALSE, result |-> NoPath,
            iterations |-> 0, capped |-> FALSE]

EngineIs(s) ==
        /\ grid = s.grid /\ player = s.player /\ bombs = s.bombs
        /\ explosions = s.explosions /\ powerUps = s.powerUps /\ enemies = s.enemies
        /\ level = s.level /\ score = s.score /\ lives = s.lives /\ gameTime = s.gameTime
        /\ isPaused = s.isPaused /\ isGameOver = s.isGameOver /\ isVictory = s.isVictory
        /\ isLevelTransitioning = s.isLevelTransitioning
        /\ isLevelComplete = s.isLevelComplete
        /\ input = s.input /\ lastTime = s.lastTime /\ animationId = s.animationId
        /\ now = s.now /\ timers = s.timers /\ scheduled = s.scheduled
        /\ running = s.running
        /\ ui = s.ui /\ uiPaused = s.uiPaused /\ nextId = s.nextId
        /\ gameOverCalls = s.gameOverCalls /\ levelCompleteCalls = s.levelCompleteCalls
        /\ stats = s.stats /\ ev = s.ev /\ pauseSnap = s.pauseSnap
        /\ inputEvents = s.inputEvents

\* no initLevel call of its own
NoCall == [level |-> 0, grid |-> <<>>, stream |-> 1, k |-> 1, enemies |-> <<>>,
           attempts |-> 0, pc |-> "none"]

\* no seeding of its own
NoSeed == [level |-> 0, jitter |-> 0, seeded |-> FALSE, boss |-> 0, other |-> 0]

Init == /\ \E s \in Starts : EngineIs(s)
        /\ pf = NoQuery
        /\ il = NoCall
        /\ seed = NoSeed

\* ------------------------------------------------------------- actions
\* the engine as a key, touch or button handler finds it
OnInput == [Eng EXCEPT !.inputEvents = @ + 1]
InputAllowed == running = 0 /\ inputEvents < MaxInputEvents

\* A display frame begins at timestamp lastTime + d and runs the first of
\* the requested loop callbacks.  A respawn timer due by then fires first.
FrameUpTo(horizon, d, rnd) ==
    LET ts == lastTime + d
    IN  /\ running = 0 /\ scheduled > 0
        /\ ts >= now /\ ts <= horizon
        /\ (IF timers = <<>> THEN TRUE ELSE timers[1] > ts)
        /\ Commit([Loop([Eng EXCEPT !.now = ts, !.running = scheduled,
                                    !.scheduled = 0, !.ev.updates = 0], ts, rnd)
                     EXCEPT !.running = @ - 1])

AnimationFrame(d, rnd) == FrameUpTo(Horizon, d, rnd)

\* a further loop callback requested for the same display frame
AnimationFrameNext(rnd) ==
    /\ running > 0
    /\ Commit([Loop(Eng, now, rnd) EXCEPT !.running = @ - 1])

\* the setTimeout callback of killPlayer fires at its due time
RespawnUpTo(horizon) ==
    /\ running = 0 /\ timers # <<>>
    /\ timers[1] <= horizon
    /\ \E d \in DtSet : lastTime + d >= timers[1]
    /\ Commit(RespawnCallback([Eng EXCEPT !.now = Max(now, timers[1]),
                                          !.timers = Tail(@)]))

RespawnTimer == RespawnUpTo(Horizon)

\* handleKeyDown / handleKeyUp
KeyDown(k) ==
    /\ InputAllowed /\ ~input[k]
    /\ Commit([OnInput EXCEPT !.input[k] = TRUE])

KeyUp(k) ==
    /\ InputAllowed /\ input[k]
    /\ Commit(IF k = "bomb"
                THEN Released([OnInput EXCEPT !.input.bomb = FALSE,
                                              !.input.bombPressed = FALSE])
                ELSE [OnInput EXCEPT !.input[k] = FALSE])

\* setVirtualInput(key, pressed), from MobileControls (rendered while
\* App's gameState is PLAYING and not paused)
SetVirtualInputOp(s, key, pressed) ==
    CASE key = "UP" -> [s EXCEPT !.input.up = pressed]
      [] key = "DOWN" -> [s EXCEPT !.input.down = pressed]
      [] key = "LEFT" -> [s EXCEPT !.input.left = pressed]
      [] key = "RIGHT" -> [s EXCEPT !.input.right = pressed]
      [] key = "BOMB" ->
           IF pressed
              THEN Pressed(s, [s EXCEPT !.input.bomb = TRUE])
              ELSE Released([s EXCEPT !.input.bomb = FALSE, !.input.bombPressed = FALSE])
      [] OTHER -> s

SetVirtualInput(key, pressed) ==
    /\ InputAllowed /\ ui = "PLAYING" /\ ~uiPaused
    /\ pressed # (key = "BOMB" /\ input.bomb)
    /\ Commit(SetVirtualInputOp(OnInput, key, pressed))

\* App.togglePause, then GameCanvas's effect: pauseGame(paused)
TogglePause ==
    /\ InputAllowed /\ ui = "PLAYING"
    /\ Commit(PauseGameOp([OnInput EXCEPT !.uiPaused = ~uiPaused], ~uiPaused))

\* App.nextLevel, offered while App's gameState is LEVEL_COMPLETE
NextLevel(gen, rnd) ==
    /\ InputAllowed /\ ui = "LEVEL_COMPLETE"
    /\ Commit(ProceedToNextLevelOp([OnInput EXCEPT !.ui = "PLAYING", !.ev.updates = 0],
                                   gen, rnd))

\* restartGame(), called once the run is over
RestartGame(gen, rnd) ==
    /\ InputAllowed /\ ui \in {"GAME_OVER", "VICTORY"}
    /\ Commit(RestartGameOp([OnInput EXCEPT !.ui = "PLAYING", !.ev.updates = 0], gen, rnd))

Next ==
    \/ \E d \in DtSet, rnd \in RandomDraws : AnimationFrame(d, rnd)
    \/ \E rnd \in RandomDraws : AnimationFrameNext(rnd)
    \/ RespawnTimer
    \/ \E k \in Keys : KeyDown(k)
    \/ \E k \in Keys : KeyUp(k)
    \/ \E k \in VirtualKeys, pressed \in BOOLEAN : SetVirtualInput(k, pressed)
    \/ TogglePause
    \/ \E gen \in LevelGens, rnd \in RandomDraws : NextLevel(gen, rnd)
    \/ \E gen \in LevelGens, rnd \in RandomDraws : RestartGame(gen, rnd)

Spec == Init /\ [][Next]_vars

\* A run followed for longer in which the only input is the pause button:
\* long enough for a respawn and its shield to pass during a pause.
LateFrame(d, rnd) == FrameUpTo(LongHorizon, d, rnd)
LateRespawnTimer == RespawnUpTo(LongHorizon)

PauseNext ==
    \/ \E d \in DtSet, rnd \in RandomDraws : LateFrame(d, rnd)
    \/ \E rnd \in RandomDraws : AnimationFrameNext(rnd)
    \/ LateRespawnTimer
    \/ TogglePause

PauseSpec == Init /\ [][PauseNext]_vars

\* The level countdown run out and left behind: one second left on the
\* clock and three lives, followed by frames, respawn timers and the arrow
\* keys for long enough to see the respawn after the second death.
CountdownHorizonTenths == 65
CountdownHorizon == StartNow + CountdownHorizonTenths * 100
LastSecond ==
    [level |-> 1, lives |-> 3, gameTime |-> 1, score |-> 0, px |-> 48,
     maxBombs |-> 1, cleared |-> {},
     powerUps |-> <<>>,
     bombs |-> <<>>,
     enemies |-> <<FarWalker(1)>>]

CountdownInit ==
    /\ \E gen \in LevelGens, rnd \in RandomDraws : EngineIs(InProgress(LastSecond, gen, rnd))
    /\ pf = NoQuery /\ il = NoCall /\ seed = NoSeed

CountdownFrame(d, rnd) == FrameUpTo(CountdownHorizon, d, rnd)
CountdownRespawnTimer == RespawnUpTo(CountdownHorizon)

CountdownNext ==
    \/ \E d \in DtSet, rnd \in RandomDraws : CountdownFrame(d, rnd)
    \/ CountdownRespawnTimer
    \/ \E k \in Keys : KeyDown(k)
    \/ \E k \in Keys : KeyUp(k)

CountdownSpec == CountdownInit /\ [][CountdownNext]_vars

\* The engine driven through its public method proceedToNextLevel() in
\* whatever state it is in, beside the frame loop, the respawn timer and
\* App's own acknowledgement.
ProceedToNextLevelCall(gen, rnd) ==
    /\ InputAllowed
    /\ Commit(ProceedToNextLevelOp([OnInput EXCEPT !.ev.updates = 0], gen, rnd))

ApiNext ==
    \/ \E d \in DtSet, rnd \in RandomDraws : AnimationFrame(d, rnd)
    \/ \E rnd \in RandomDraws : AnimationFrameNext(rnd)
    \/ RespawnTimer
    \/ \E gen \in LevelGens, rnd \in RandomDraws : NextLevel(gen, rnd)
    \/ \E gen \in LevelGens, rnd \in RandomDraws : ProceedToNextLevelCall(gen, rnd)

ApiSpec == Init /\ [][ApiNext]_vars

\* The bomb input on its own, beside the frame loop and the respawn timer:
\* the space key with its auto-repeat (keydown events while the key is
\* down), its release, and the BOMB button pressed or released whatever the
\* input holds.
BombKeyDown ==
    /\ InputAllowed
    /\ Commit(Pressed(OnInput, [OnInput EXCEPT !.input.bomb = TRUE]))

BombKeyUp == KeyUp("bomb")

BombButton(pressed) ==
    /\ InputAllowed /\ ui = "PLAYING" /\ ~uiPaused
    /\ Commit(SetVirtualInputOp(OnInput, "BOMB", pressed))

BombInputNext ==
    \/ \E d \in DtSet, rnd \in RandomDraws : AnimationFrame(d, rnd)
    \/ \E rnd \in RandomDraws : AnimationFrameNext(rnd)
    \/ RespawnTimer
    \/ BombKeyDown
    \/ BombKeyUp
    \/ \E pressed \in BOOLEAN : BombButton(pressed)

BombInputSpec == Init /\ [][BombInputNext]_vars

\* findPath on its own: a pure function of its four arguments, called once
\* on arguments drawn from the sets below, beside an engine just constructed.
\* The cells are those of the corner square 0..PathSpan and the far corner.
PathSpan == 3
PathCells ==
    {[col |-> c, row |-> r] : c \in 0..PathSpan, r \in 0..PathSpan}
        \cup {[col |-> GRID_COLS - 1, row |-> GRID_ROWS - 1],
              [col |-> GRID_COLS - 2, row |-> GRID_ROWS - 2]}
OpenGrid == [r \in 0..(GRID_ROWS - 1) |-> [c \in 0..(GRID_COLS - 1) |-> EMPTY]]
PathGrids == {OpenGrid, GenerateGrid(SoftLayout)}
PathBombs ==
    {<<>>,
     <<[col |-> 1, row |-> 1]>>,
     <<[col |-> 1, row |-> 1], [col |-> 2, row |-> 1]>>,
     <<[col |-> 1, row |-> 2], [col |-> 2, row |-> 1]>>}

PathInit ==
    /\ EngineIs(Construct(CHOOSE gen \in LevelGens : TRUE))
    /\ \E start \in PathCells, target \in PathCells, g \in PathGrids, bs \in PathBombs :
          pf = [start |-> start, target |-> target, grid |-> g, bombPoints |-> bs,
                called |-> FALSE, result |-> NoPath,
                iterations |-> 0, capped |-> FALSE]
    /\ il = NoCall
    /\ seed = NoSeed

FindPathCall ==
    /\ ~pf.called
    /\ \E st \in {FindPathSearch(pf.start, pf.target, pf.grid, pf.bombPoints)} :
          pf' = [pf EXCEPT !.called = TRUE,
                           !.result = FindPath(pf.start, pf.target, pf.grid, pf.bombPoints),
                           !.iterations = st.iterations,
                           !.capped = st.capped]
    /\ UNCHANGED <<engineVars, il, seed>>

PathNext == FindPathCall

PathSpec == PathInit /\ [][PathNext]_vars

\* ------------------------------------------------- initLevel on its own
\* initLevel's enemy loop and spawnEnemy, one step per loop test and per
\* attempt, from the grid of step 1 on.  The outcomes of Math.random() are
\* read off a stream that repeats: EnemyDraws, and a stream that opens with
\* SparseRun draws of the spawn cell before five draws of EnemyDraws.
SPAWN_ATTEMPTS == 50
SparseRun == 55
SparseDraws ==
    [k \in 1..(SparseRun + 5) |->
        IF k <= SparseRun THEN [c |-> 1, r |-> 1, boss |-> 100, type |-> 0]
        ELSE EnemyDraws[k - SparseRun + 1]]
SpawnStreams == <<EnemyDraws, SparseDraws>>

\* the cells spawnEnemy can accept
FarCells ==
    {<<c, r>> : c \in 1..(GRID_COLS - 2), r \in 1..(GRID_ROWS - 2)}
        \ {<<c, r>> \in (1..(GRID_COLS - 2)) \X (1..(GRID_ROWS - 2)) :
                Abs(r - 1) + Abs(c - 1) <= 8}
\* outcomes of the density draws tried: SoftLayout, a soft wall on every
\* cell spawnEnemy can accept, and on every such cell but one
SpawnLayouts == {SoftLayout, FarCells, FarCells \ {<<13, 11>>}}

InitLevelInit ==
    /\ EngineIs(Construct(CHOOSE gen \in LevelGens : TRUE))
    /\ pf = NoQuery
    /\ seed = NoSeed
    /\ \E lvl \in 1..FINAL_LEVEL, soft \in SpawnLayouts, n \in 1..Len(SpawnStreams) :
          il = [level |-> lvl, grid |-> GenerateGrid(soft), stream |-> n, k |-> 1,
                enemies |-> <<>>, attempts |-> 0, pc |-> "while"]

\* the next outcome of the stream, and the stream moved past it
NextDraw == SpawnStreams[il.stream][il.k]
Drawn(c) == [c EXCEPT !.k = (@ % Len(SpawnStreams[c.stream])) + 1]

\* while (enemiesSpawned < totalEnemies): spawnEnemy(level) is called
SpawnEnemyCalled ==
    /\ il.pc = "while"
    /\ Len(il.enemies) < TotalEnemies(il.level)
    /\ il' = [il EXCEPT !.pc = "spawnEnemy", !.attempts = 0]
    /\ UNCHANGED <<engineVars, pf, seed>>

\* the loop test fails: initLevel returns
InitLevelReturns ==
    /\ il.pc = "while"
    /\ Len(il.enemies) >= TotalEnemies(il.level)
    /\ il' = [il EXCEPT !.pc = "returned"]
    /\ UNCHANGED <<engineVars, pf, seed>>

\* an attempt of spawnEnemy on an accepted cell: the enemy is pushed, the
\* call returns true and enemiesSpawned is incremented
SpawnAttemptAccepted ==
    /\ il.pc = "spawnEnemy"
    /\ il.attempts < SPAWN_ATTEMPTS
    /\ SpawnAccepts(il.grid, NextDraw)
    /\ il' = [Drawn(il) EXCEPT
                !.enemies = Append(@, NewEnemy(il.level, NextDraw, Len(@) + 1)),
                !.pc = "while"]
    /\ UNCHANGED <<engineVars, pf, seed>>

\* an attempt on a rejected cell
SpawnAttemptRejected ==
    /\ il.pc = "spawnEnemy"
    /\ il.attempts < SPAWN_ATTEMPTS
    /\ ~SpawnAccepts(il.grid, NextDraw)
    /\ il' = [Drawn(il) EXCEPT !.attempts = @ + 1]
    /\ UNCHANGED <<engineVars, pf, seed>>

\* the attempts are used up: spawnEnemy returns false
SpawnEnemyFails ==
    /\ il.pc = "spawnEnemy"
    /\ il.attempts >= SPAWN_ATTEMPTS
    /\ il' = [il EXCEPT !.pc = "while"]
    /\ UNCHANGED <<engineVars, pf, seed>>

InitLevelNext ==
    \/ SpawnEnemyCalled
    \/ InitLevelReturns
    \/ SpawnAttemptAccepted
    \/ SpawnAttemptRejected
    \/ SpawnEnemyFails

\* the loop is synchronous code: it keeps running until it returns
InitLevelSpec == InitLevelInit /\ [][InitLevelNext]_vars /\ WF_vars(InitLevelNext)

\* ------------------------------------------- the replan countdown alone
\* updateEnemyAI's seeding of recalcPathTimer, for a boss and for another
\* enemy at the same level and with the same Math.random() outcome
JitterDraws == 0..999

SeedInit ==
    /\ EngineIs(Construct(CHOOSE gen \in LevelGens : TRUE))
    /\ pf = NoQuery
    /\ il = NoCall
    /\ \E lvl \in 1..FINAL_LEVEL, j \in JitterDraws :
          seed = [level |-> lvl, jitter |-> j, seeded |-> FALSE, boss |-> 0, other |-> 0]

SeedRecalcPathTimer ==
    /\ ~seed.seeded
    /\ seed' = [seed EXCEPT
                  !.seeded = TRUE,
                  !.boss = RecalcDelay(seed.level, TRUE, (seed.jitter * 200) \div 1000),
                  !.other = RecalcDelay(seed.level, FALSE, (seed.jitter * 200) \div 1000)]
    /\ UNCHANGED <<engineVars, pf, il>>

SeedNext == SeedRecalcPathTimer

SeedSpec == SeedInit /\ [][SeedNext]_vars

\* --------------------------------------------------- destroyBlock alone
\* One call of destroyBlock on a soft wall of the level just built, for
\* every kind roll (per mille) and spawn rolls on both sides of 0.35.
SpawnRolls == {0, 349, 350, 999}
KindRolls == 0..999

DestroyBlockCall(col, row, spawn, kind) ==
    /\ grid[row][col] = WALL_SOFT
    /\ Commit([DestroyBlock(Eng, col, row,
                            [spawn |-> spawn, kind |-> kind, pick |-> 0, jitter |-> 0])
                 EXCEPT !.ev.rolls = {[spawn |-> spawn, kind |-> kind,
                                       col |-> col, row |-> row,
                                       score |-> score, powerUps |-> powerUps]}])

DestroyInit ==
    /\ EngineIs(Construct(CHOOSE gen \in LevelGens : TRUE))
    /\ pf = NoQuery /\ il = NoCall /\ seed = NoSeed

\* the one call followed
DestroyNext ==
    /\ ev.rolls = {}
    /\ \E c \in 1..(GRID_COLS - 2), r \in 1..(GRID_ROWS - 2),
          spawn \in SpawnRolls, kind \in KindRolls : DestroyBlockCall(c, r, spawn, kind)

DestroySpec == DestroyInit /\ [][DestroyNext]_vars

\* ------------------------------------------------ power-up pickups alone
\* Step 6 of update run on its own, once per power-up the player walks onto:
\* every sequence of up to MaxPickups kinds, beside a power-up dropped by a
\* destroyed soft wall elsewhere on the level.
MaxPickups == 5
PowerUpTypes == {"BOMB_UP", "FIRE_UP", "SPEED_UP", "SUPER_BOMB", "TIME_BONUS"}
FirstSoftWall ==
    CHOOSE c \in (1..(GRID_COLS - 2)) \X (1..(GRID_ROWS - 2)) :
        Construct(CHOOSE gen \in LevelGens : TRUE).grid[c[2]][c[1]] = WALL_SOFT

PickupInit ==
    /\ EngineIs(DestroyBlock(Construct(CHOOSE gen \in LevelGens : TRUE),
                             FirstSoftWall[1], FirstSoftWall[2],
                             [spawn |-> 0, kind |-> 700, pick |-> 0, jitter |-> 0]))
    /\ pf = NoQuery /\ il = NoCall /\ seed = NoSeed

\* the player is on the cell of a power-up of the given type when step 6 runs
Pickup(type) ==
    /\ score < 10 + 50 * MaxPickups
    /\ Commit(PowerUpLoop([Eng EXCEPT !.powerUps =
                                Append(@, [col |-> player.gridX, row |-> player.gridY,
                                           type |-> type])],
                          Len(powerUps) + 1))

PickupNext == \E type \in PowerUpTypes : Pickup(type)

PickupSpec == PickupInit /\ [][PickupNext]_vars

\* ============================================================ properties

\* C1 (as stated): every bomb reached by a detonating bomb's ray in an update
\* detonates within that same update, whatever the order of the two in the
\* bomb list.
C1_DetonatesInSameTick == \A h \in ev.hit : h.id \in ev.exploded

\* C1 (amended): a bomb reached by a detonating bomb's ray detonates within
\* that same update or is left in the bomb list with its timer forced to
\* zero, and every bomb that enters an update with its timer at or below zero
\* detonates in that update: the chain resolves in the same or the next
\* update tick.
C1_DetonatesBySameOrNextTick ==
    /\ ev.carried \subseteq ev.exploded
    /\ \A h \in ev.hit :
          \/ h.id \in ev.exploded
          \/ \E i \in 1..Len(bombs) : bombs[i].id = h.id /\ bombs[i].timer = 0

\* a ray has reached a bomb stored after the detonating one: it is left
\* waiting with its timer at zero
C1_ReachedBombWaits ==
    \E h \in ev.hit :
        /\ h.id \notin ev.exploded
        /\ \E i \in 1..Len(bombs) : bombs[i].id = h.id /\ bombs[i].timer = 0

\* the waiting bomb has gone off in the update that followed
C1_ReachedBombDetonatedNextTick ==
    ev.carried # {} /\ ev.carried \subseteq ev.exploded

\* C2: per level the level-complete callback has fired exactly once as soon
\* as an update leaves the enemy collection empty, however many enemies died
\* in that update, and it does not fire again while the collection stays
\* empty.
C2_LevelCompleteFiresOnce ==
    /\ levelCompleteCalls <= 1
    /\ (Len(enemies) = 0) <=> (levelCompleteCalls = 1)

\* the last two enemies died in one update and the callback fired once
C2_AllEnemiesDiedInOneTick ==
    ev.lcFired /\ Cardinality(ev.killed) >= 2 /\ Len(enemies) = 0
        /\ levelCompleteCalls = 1

\* C3: the level-complete callback never fires in an update in which
\* GameOver or Victory has already been set.
C3_NoLevelCompleteOnceTerminal == ~(ev.lcFired /\ ev.goBefore)

\* C4: an engine with one frame loop active never gets a second one, whatever
\* startGame, pauseGame, proceedToNextLevel or restartGame call is made, so no
\* display frame runs more than one update.
C4_SingleFrameLoop ==
    [][(scheduled + running <= 1) => (scheduled' + running' <= 1 /\ ev'.updates <= 1)]_vars

\* C5: no life is lost while now < player.invulnerableUntil, whichever step
\* of the update (explosion, enemy contact, countdown) asks for the kill.
C5_NoLifeLostWhileInvulnerable == \A l \in ev.lost : ~(l.at < l.inv)

\* the countdown expired on a living, invulnerable player and no life was lost
C5_KillRefusedWhileInvulnerable ==
    \E u \in ev.timeUp : u.inv /\ ~u.dead /\ u.livesAfter = u.lives /\ ev.lost = {}

\* C6 (as stated): a countdown that reaches zero while the player is not
\* dead puts the run in GameOver in that update.
C6_TimeUpEndsRun == \A u \in ev.timeUp : ~u.dead => u.over

\* C6 (amended): a countdown at or below zero on a whole-second tick costs a
\* player that is neither dead nor invulnerable one life in that update, and
\* the run enters GameOver in that update exactly when it was the last life;
\* a dead or invulnerable player loses nothing.
C6_TimeUpCostsOneLife ==
    \A u \in ev.timeUp :
        IF ~u.dead /\ ~u.inv
            THEN u.livesAfter = u.lives - 1 /\ (u.over <=> u.lives <= 1)
            ELSE u.livesAfter = u.lives

\* the countdown expired on a player with lives to spare, and on the last life
C6_TimeUpWithLivesLeft == \E u \in ev.timeUp : ~u.dead /\ ~u.inv /\ u.lives > 1 /\ ~u.over

\* C7: once a death has put the run in GameOver the player is not respawned:
\* no respawn is pending, and until a restart the dead flag stays set and the
\* position is not reset.
C7_NoRespawnAfterGameOver ==
    [][(isGameOver /\ isGameOver')
          => (timers' = <<>> /\ player'.isDead
                /\ player'.x = player.x /\ player'.y = player.y)]_vars

\* C8: the terminal-event callback fires at most once between restarts.
C8_OneTerminalEventPerRun == Len(gameOverCalls) <= 1

\* C9: while the engine is paused the simulation state is the one
\* pauseGame(true) found.
C9_PauseFreezesSimulation ==
    (isPaused /\ pauseSnap # <<>>) => (pauseSnap[1] = Sim(Eng))

\* the hitbox of an entity at (x, y): the tile inset by 8 px on each side,
\* against the tile (col, row)
HitboxOverlapsCell(x, y, col, row) ==
    /\ x + MilliPx(8) < (col + 1) * T /\ x + T - MilliPx(8) > col * T
    /\ y + MilliPx(8) < (row + 1) * T /\ y + T - MilliPx(8) > row * T

Entities(pl, es) ==
    {[id |-> 0, x |-> pl.x, y |-> pl.y]}
        \cup {[id |-> es[j].id, x |-> es[j].x, y |-> es[j].y] : j \in 1..Len(es)}

NoWallOverlap(g, pl, es) ==
    \A e \in Entities(pl, es) :
        \A row \in 0..(GRID_ROWS - 1), col \in 0..(GRID_COLS - 1) :
            g[row][col] # EMPTY => ~HitboxOverlapsCell(e.x, e.y, col, row)

\* no entity overlaps the cell of a bomb that was live before the step
\* without having overlapped it before the step
NoBombEntered ==
    \A i \in 1..Len(bombs') :
        \A b \in {k \in 1..Len(bombs) : bombs[k].id = bombs'[i].id} :
            \A e2 \in Entities(player', enemies') :
                \A e1 \in {e \in Entities(player, enemies) : e.id = e2.id} :
                    HitboxOverlapsCell(e2.x, e2.y, bombs'[i].col, bombs'[i].row)
                        => HitboxOverlapsCell(e1.x, e1.y, bombs[b].col, bombs[b].row)

\* C10 (as stated): after any step (movement tick, slide, level start,
\* respawn) no entity's hitbox overlaps a wall tile, nor a live bomb cell it
\* did not overlap before the step.
C10_NoPenetration ==
    [][NoWallOverlap(grid', player', enemies') /\ NoBombEntered]_vars

\* C10 (amended): the same of every step but the respawn callback, which
\* puts the player on the spawn cell whether or not a live bomb lies there;
\* after the respawn callback too no hitbox overlaps a wall tile.
C10_NoPenetrationByMovement ==
    [][/\ NoWallOverlap(grid', player', enemies')
       /\ (Len(timers') >= Len(timers) => NoBombEntered)]_vars

\* the player's move was stopped or bent by a wall or a bomb
C10_MoveStopped == \E m \in ev.moved : m.to # m.want

\* the cell i steps from the bomb of blast b in direction d
RayCell(b, d, i) == <<b.col + d.dx * i, b.row + d.dy * i>>

\* the ray of blast b in direction d passes cell i: grid and bombs as the
\* detonation found them
RayOpen(b, d, i) ==
    /\ InGrid(RayCell(b, d, i)[1], RayCell(b, d, i)[2])
    /\ b.grid[RayCell(b, d, i)[2]][RayCell(b, d, i)[1]] = EMPTY
    /\ RayCell(b, d, i) \notin b.bombCells

\* cell i of the ray belongs to the blast: within range, in the grid, not a
\* WallHard, and every cell before it open
RayCovers(b, d, i) ==
    /\ i \in 1..b.range
    /\ InGrid(RayCell(b, d, i)[1], RayCell(b, d, i)[2])
    /\ b.grid[RayCell(b, d, i)[2]][RayCell(b, d, i)[1]] # WALL_HARD
    /\ \A j \in 1..(i - 1) : RayOpen(b, d, j)

BlastCells(b) == {<<b.cells[k].col, b.cells[k].row>> : k \in 1..Len(b.cells)}

\* C11: the Explosion of a detonation holds the origin and, in each of the
\* four directions, the consecutive cells up to the range, stopping before
\* the first WallHard and on the first WallSoft, which is Empty afterwards
\* (and on the first bomb); a ray with nothing in its way covers `range`
\* cells beside the origin; no Explosion holds a WallHard cell.
C11_BlastGeometry ==
    /\ \A n \in 1..Len(ev.blasts) :
          LET b == ev.blasts[n]
          IN  /\ b.cells[1].col = b.col /\ b.cells[1].row = b.row
              /\ Cardinality(BlastCells(b)) = Len(b.cells)
              /\ BlastCells(b) =
                    {<<b.col, b.row>>}
                      \cup {RayCell(b, Directions[d], i) :
                              <<d, i>> \in {x \in (1..4) \X (1..b.range) :
                                              RayCovers(b, Directions[x[1]], x[2])}}
              /\ \A c \in BlastCells(b) :
                    /\ b.grid[c[2]][c[1]] # WALL_HARD
                    /\ grid[c[2]][c[1]] = EMPTY
              /\ \A d \in 1..4 :
                    (\A i \in 1..b.range : RayOpen(b, Directions[d], i))
                      => Cardinality({i \in 1..b.range :
                                        RayCell(b, Directions[d], i) \in BlastCells(b)})
                            = b.range
    /\ \A n \in 1..Len(explosions) : \A k \in 1..Len(explosions[n].cells) :
          grid[explosions[n].cells[k].row][explosions[n].cells[k].col] # WALL_HARD

\* a detonation whose rays met a WallHard, destroyed a WallSoft and ran one
\* direction to the full range
C11_RaysStoppedAndFree ==
    \E n \in 1..Len(ev.blasts) :
        LET b == ev.blasts[n]
        IN  /\ \E c \in BlastCells(b) : b.grid[c[2]][c[1]] = WALL_SOFT
            /\ \E d \in 1..4 : \A i \in 1..b.range : RayOpen(b, Directions[d], i)
            /\ \E d \in 1..4 : ~RayCovers(b, Directions[d], 1)

BombIds(bs) == {bs[i].id : i \in 1..Len(bs)}

\* C12: a live bomb keeps its cell and its range and its fuse only runs
\* down; a bomb is laid with a fuse of 2000 ms and the player's range of
\* that moment; every bomb detonated in an update produced one Explosion
\* and is gone from the bomb list after that update, and no bomb that left
\* the list comes back.
C12_BombsFixedAndDetonateOnce ==
    [][/\ \A i \in 1..Len(bombs), j \in 1..Len(bombs') :
             bombs[i].id = bombs'[j].id
               => /\ bombs'[j].range = bombs[i].range
                  /\ bombs'[j].col = bombs[i].col /\ bombs'[j].row = bombs[i].row
                  /\ bombs'[j].timer <= bombs[i].timer
       /\ \A a \in ev'.attempts :
             a.after.bombs # a.before.bombs
               => /\ Len(a.after.bombs) = Len(a.before.bombs) + 1
                  /\ a.after.bombs[Len(a.after.bombs)].timer = BOMB_FUSE_MS
                  /\ a.after.bombs[Len(a.after.bombs)].range = a.before.bombRange
       /\ ev'.exploded = {ev'.blasts[n].id : n \in 1..Len(ev'.blasts)}
       /\ Len(ev'.blasts) = Cardinality(ev'.exploded)
       /\ ev'.exploded \cap BombIds(bombs') = {}
       /\ \A id \in BombIds(bombs') : id \in BombIds(bombs) \/ id >= nextId
       /\ Cardinality(BombIds(bombs')) = Len(bombs')]_vars

\* a bomb laid with range 2 went off with range 2 after the player had
\* taken a FireUp
C12_DetonatedWithPlacementRange ==
    \E n \in 1..Len(ev.blasts) : ev.blasts[n].range < player.bombRange

\* C13: an explosion whose cells hold the derived cell of a living player
\* without invulnerability costs exactly one life in that update, and one
\* that took a life before takes no second one; an explosion that does not
\* hold the cell, or meets a dead or invulnerable player, costs nothing.
C13_OneLifePerExplosion ==
    \A b \in ev.burns :
        IF b.overlap /\ ~b.dead /\ ~b.inv
            THEN b.livesAfter = b.lives - 1 /\ ~b.again
            ELSE b.livesAfter = b.lives

\* whether the cell p holds one of the bombs handed to findPath
HoldsBomb(p) == BombAt(pf.bombPoints, p.col, p.row)

\* C14 (as stated): findPath never returns a path containing a cell that
\* holds one of the supplied bombs, whatever the start, goal, grid and bombs.
C14_NoBombCellInPath ==
    pf.called /\ pf.result.found =>
        \A i \in 1..Len(pf.result.path) : ~HoldsBomb(pf.result.path[i])

\* C14 (amended): the start cell is returned unchecked as the first cell of
\* the path; no later cell of a returned path holds a supplied bomb, and a
\* goal that holds a bomb and is not the start yields no path.
C14_NoBombCellAfterStart ==
    pf.called =>
        /\ pf.result.found =>
              /\ pf.result.path[1] = pf.start
              /\ \A i \in 2..Len(pf.result.path) : ~HoldsBomb(pf.result.path[i])
        /\ HoldsBomb(pf.target) /\ pf.target # pf.start => ~pf.result.found

\* a path of several cells was found around a bomb, from a start holding one
C14_PathFromBombCell ==
    /\ pf.called /\ pf.result.found
    /\ HoldsBomb(pf.start)
    /\ Len(pf.result.path) > Heuristic(pf.start.col, pf.start.row,
                                        pf.target.col, pf.target.row) + 1

\* C15: on a grid with no walls and no bombs findPath returns a path of
\* exactly |dx| + |dy| + 1 cells, the first the start cell and the last the
\* goal cell.
C15_ManhattanOptimal ==
    pf.called /\ pf.grid = OpenGrid /\ pf.bombPoints = <<>> =>
        /\ pf.result.found
        /\ Len(pf.result.path) = Abs(pf.target.col - pf.start.col)
                                    + Abs(pf.target.row - pf.start.row) + 1
        /\ pf.result.path[1] = pf.start
        /\ pf.result.path[Len(pf.result.path)] = pf.target

\* a path found across the open grid, with both offsets negative
C15_FoundAcrossGrid ==
    /\ pf.called /\ pf.grid = OpenGrid /\ pf.bombPoints = <<>>
    /\ pf.target.col < pf.start.col - PathSpan
    /\ pf.target.row < pf.start.row - PathSpan
    /\ pf.result.found /\ Len(pf.result.path) > 2 * PathSpan + 2

\* C16: no two live bombs share a grid cell, in any reachable state.
C16_NoTwoBombsShareCell ==
    \A i \in 1..Len(bombs), j \in 1..Len(bombs) :
        i # j => ~(bombs[i].col = bombs[j].col /\ bombs[i].row = bombs[j].row)

\* a placement with a bomb to spare was refused on a cell holding a bomb
C16_RefusedOnOccupiedCell ==
    \E a \in ev.attempts :
        /\ a.before.bombsCount < a.before.maxBombs
        /\ BombAt(a.before.bombs, a.before.col, a.before.row)
        /\ Len(a.after.bombs) = Len(a.before.bombs)

\* C17: in every reachable state 0 <= player.bombsCount <= player.maxBombs.
C17_BombsCountWithinCapacity ==
    player.bombsCount >= 0 /\ player.bombsCount <= player.maxBombs

\* the inventory is full with two bombs out, or a placement found it full
C17_AtCapacity ==
    /\ player.bombsCount = player.maxBombs
    /\ \/ Len(bombs) = 2
       \/ \E a \in ev.attempts : a.before.bombsCount >= a.before.maxBombs

\* C18: a placement attempted at capacity, or on a cell that holds a live
\* bomb, changes nothing: bombs, bombsCount, grid, score and explosions are
\* as before the attempt.
C18_RejectedPlacementChangesNothing ==
    \A a \in ev.attempts :
        (\/ a.before.bombsCount >= a.before.maxBombs
         \/ BombAt(a.before.bombs, a.before.col, a.before.row))
            => a.after = a.before

\* both kinds of rejection have happened: at capacity on a free cell, and
\* on an occupied cell with a bomb to spare
C18_RejectedAtCapacity ==
    \E a \in ev.attempts :
        /\ a.before.bombsCount >= a.before.maxBombs
        /\ ~BombAt(a.before.bombs, a.before.col, a.before.row)
        /\ a.after = a.before

\* the step is an acknowledgement of a completed level (App.nextLevel)
Acknowledged == \E gen \in LevelGens, rnd \in RandomDraws : NextLevel(gen, rnd)

\* C19: acknowledging a completed level grants exactly one bonus life; below
\* the final level it initializes level + 1 and play resumes (the run is in
\* none of GameOver, Victory, LevelComplete or pause and the frame loop is
\* requested); on the final level it sets Victory, fires the terminal event
\* with the victory flag and initializes no level.
C19_AcknowledgeLevelComplete ==
    [][Acknowledged =>
         /\ lives' = lives + 1
         /\ IF level < FINAL_LEVEL
               THEN /\ level' = level + 1
                    /\ gameTime' = 120 + (level + 1) * 15
                    /\ explosions' = <<>> /\ powerUps' = <<>>
                    /\ ~isLevelComplete' /\ ~isLevelTransitioning'
                    /\ ~isPaused' /\ ~isGameOver' /\ ~isVictory'
                    /\ scheduled' >= 1
               ELSE /\ isVictory'
                    /\ gameOverCalls' = Append(gameOverCalls, TRUE)
                    /\ level' = level /\ gameTime' = gameTime
                    /\ grid' = grid /\ enemies' = enemies /\ bombs' = bombs
                    /\ player' = player]_vars

\* the step is a call of proceedToNextLevel()
Proceeded == \E gen \in LevelGens, rnd \in RandomDraws : ProceedToNextLevelCall(gen, rnd)

\* C20: proceedToNextLevel() called while the run is not in LevelComplete
\* (Playing, GameOver, Victory, or already acknowledged) changes neither the
\* level index, nor the lives, nor the run flags.
C20_ProceedOnlyFromLevelComplete ==
    [][Proceeded /\ ~isLevelComplete =>
         /\ level' = level /\ lives' = lives
         /\ isGameOver' = isGameOver /\ isVictory' = isVictory
         /\ isLevelComplete' = isLevelComplete
         /\ isLevelTransitioning' = isLevelTransitioning]_vars

\* C21: while the player is marked dead, within a level, the player is
\* inert whatever the input: its position does not change, no bomb is placed
\* and no power-up is collected.
C21_DeadPlayerInert ==
    [][(player.isDead /\ player'.isDead /\ level' = level) =>
         /\ player'.x = player.x /\ player'.y = player.y
         /\ BombIds(bombs') \subseteq BombIds(bombs)
         /\ player'.maxBombs = player.maxBombs
         /\ player'.bombRange = player.bombRange
         /\ player'.speed = player.speed]_vars

\* in the last update every step named a ran before every step named b
RanBefore(a, b) ==
    \A i \in 1..Len(ev.phases), j \in 1..Len(ev.phases) :
        ev.phases[i] = a /\ ev.phases[j] = b => i < j

PhaseOrder == <<"move", "place", "bombs", "explosions", "levelComplete", "enemyAI",
                "powerUps", "contact", "countdown", "stats">>

GridWellFormed(g) ==
    /\ DOMAIN g = 0..12
    /\ \A r \in DOMAIN g :
          /\ DOMAIN g[r] = 0..14
          /\ \A c \in DOMAIN g[r] :
                /\ g[r][c] \in {EMPTY, WALL_HARD, WALL_SOFT}
                /\ (r = 0 \/ c = 0 \/ r = 12 \/ c = 14) => g[r][c] = WALL_HARD
                /\ (r % 2 = 0 /\ c % 2 = 0) => g[r][c] = WALL_HARD
    /\ g[1][1] = EMPTY /\ g[1][2] = EMPTY /\ g[2][1] = EMPTY

\* the step starts a level anew (next level or restart)
LevelStarted ==
    \/ \E gen \in LevelGens, rnd \in RandomDraws : NextLevel(gen, rnd)
    \/ \E gen \in LevelGens, rnd \in RandomDraws : RestartGame(gen, rnd)

\* C23: in every reachable state the grid is 13 by 15 with WallHard border
\* and pillars and wall-free spawn cells, and within a level the only tile
\* change is WallSoft to Empty.
C23_GridInvariant ==
    [][/\ GridWellFormed(grid) /\ GridWellFormed(grid')
       /\ ~LevelStarted =>
             \A r \in DOMAIN grid : \A c \in DOMAIN grid[r] :
                 grid'[r][c] # grid[r][c] =>
                     grid[r][c] = WALL_SOFT /\ grid'[r][c] = EMPTY]_vars

\* an explosion of the last update turned a soft wall into an empty tile
C23_SoftWallCleared ==
    \E n \in 1..Len(ev.blasts) :
        \E r \in DOMAIN grid : \E c \in DOMAIN grid[r] :
            ev.blasts[n].grid[r][c] = WALL_SOFT /\ grid[r][c] = EMPTY

\* the player's hitbox at (x, y) collides, for the move m
MoveBlockedAt(m, x, y) ==
    CheckCollision(m.grid, m.bombs, m.from.x, m.from.y,
                   x + MilliPx(8), y + MilliPx(8), T - MilliPx(16), T - MilliPx(16), TRUE)

\* the corner point (x, y) of the leading edge is blocked, for the move m
LaneBlocked(m, x, y) == IsPointBlocked(m.grid, m.bombs, x, y)

\* the leading edge of the blocked move m, on the axis it moves along
LeadingEdge(m) ==
    IF m.d.dx > 0 THEN m.want.x + T - MilliPx(8)
    ELSE IF m.d.dx < 0 THEN m.want.x + MilliPx(8)
    ELSE IF m.d.dy > 0 THEN m.want.y + T - MilliPx(8)
    ELSE m.want.y + MilliPx(8)

CornerCells(x, y) ==
    {<<TileOf(x + MilliPx(8)), TileOf(y + MilliPx(8))>>,
     <<TileOf(x + T - MilliPx(8)), TileOf(y + MilliPx(8))>>,
     <<TileOf(x + MilliPx(8)), TileOf(y + T - MilliPx(8))>>,
     <<TileOf(x + T - MilliPx(8)), TileOf(y + T - MilliPx(8))>>}

\* the bomb cells the entity of move m overlapped when the move began
OverlappedBombCells(m) ==
    {<<m.bombs[i].col, m.bombs[i].row>> : i \in
        {k \in 1..Len(m.bombs) :
            HitboxOverlapsCell(m.from.x, m.from.y, m.bombs[k].col, m.bombs[k].row)}}

\* the cell c is open ground on the grid of move m
OpenGround(m, c) == InGrid(c[1], c[2]) /\ m.grid[c[2]][c[1]] = EMPTY

\* C25, for one move m along one axis: a target whose cells are open ground
\* with no bomb but those the entity overlapped is reached; a target with a
\* corner on another bomb's cell is not.
EgressHolds(m) ==
    (m.d.dx = 0 \/ m.d.dy = 0) /\ m.want # m.from =>
        /\ (\A c \in CornerCells(m.want.x, m.want.y) :
                /\ OpenGround(m, c)
                /\ BombAt(m.bombs, c[1], c[2]) => c \in OverlappedBombCells(m))
              => m.to = m.want
        /\ (\E c \in CornerCells(m.want.x, m.want.y) :
                BombAt(m.bombs, c[1], c[2]) /\ c \notin OverlappedBombCells(m))
              => m.to # m.want

RayPlaces(b, dir) == {k \in 1..Len(b.cells) : b.cells[k].direction = dir}

HitCounted(h) == h.hpAfter = h.hp - 1 /\ h.lastAfter = h.at

\* the hit h was ignored
HitIgnored(h) ==
    h.hpAfter = h.hp /\ h.lastAfter = h.last /\ ~h.dead /\ h.score = 0 /\ h.time = 0

\* C27: a non-boss enemy in an explosion cell loses one hp per hit, a boss
\* only if its last counted hit is at least 1000 ms old (so at most one per
\* update, whatever the number of cells and explosions); an enemy whose hp
\* reaches zero is marked dead, awards 100 and 10 s (boss 500 and 30 s)
\* once and is gone from the collection after the tick; 0 <= hp <= maxHp.
C27_ExplosionDamageToEnemies ==
    /\ \A h \in ev.hits :
          /\ IF h.boss /\ h.at - h.last < 1000 THEN HitIgnored(h) ELSE HitCounted(h)
          /\ h.hpAfter >= 0 /\ h.hp <= h.maxHp
          /\ h.dead <=> h.hpAfter = 0
          /\ h.score = (IF h.dead THEN (IF h.boss THEN 500 ELSE 100) ELSE 0)
          /\ h.time = (IF h.dead THEN (IF h.boss THEN 30 ELSE 10) ELSE 0)
    /\ \A h \in ev.hits, g \in ev.hits :
          (h.id = g.id /\ h.boss /\ h.hpAfter < h.hp /\ g.hpAfter < g.hp) => h = g
    /\ \A j \in 1..Len(enemies) :
          /\ ~enemies[j].isDead /\ enemies[j].id \notin ev.killed
          /\ enemies[j].hp > 0 /\ enemies[j].hp <= enemies[j].maxHp

\* a boss took its third counted hit, died and left the collection
C27_BossKilledByThirdHit ==
    /\ \E h \in ev.hits : h.boss /\ h.hp = 1 /\ h.dead /\ h.score = 500 /\ h.time = 30
    /\ \A j \in 1..Len(enemies) : ~enemies[j].isBoss

\* C28: level initialization always terminates: whatever grid was
\* generated, the enemy loop reaches its target count and initLevel returns.
C28_InitLevelTerminates == <>(il.pc = "returned")

\* the enemy e stands on an Empty tile of g farther than 8 cells (Manhattan)
\* from the spawn cell (1,1)
PlacedFarOnEmpty(g, e) ==
    LET col == e.x \div T
        row == e.y \div T
    IN  /\ col * T = e.x /\ row * T = e.y
        /\ g[row][col] = EMPTY
        /\ (IF row >= 1 THEN row - 1 ELSE 1 - row)
              + (IF col >= 1 THEN col - 1 ELSE 1 - col) > 8

C30_BossReplansSlower ==
    (seed.seeded /\ seed.level >= 3) => seed.boss > seed.other

\* C31: bomb placement is edge-triggered: from a press of the bomb input to
\* its release at most one placement attempt is made, however many updates
\* run and however many press events arrive in between, from the keyboard
\* and from the BOMB button alike.
C31_OneAttemptPerPress == ev.attemptsHeld <= 1

\* the input is still down after its one attempt, a repeated press event
\* and an update that followed it
C31_HeldThroughRepeatAndTick ==
    /\ input.bomb /\ ev.attemptsHeld = 1
    /\ ev.repeats >= 1 /\ ev.heldTicks >= 1

\* the run is not in Playing: no update runs
Stopped == isPaused \/ isGameOver \/ isVictory \/ isLevelComplete
ExplosionIds(es) == {es[i].id : i \in 1..Len(es)}
\* a tick of a run in Playing with positive elapsed time
Ticked == ~Stopped /\ lastTime' > lastTime
\* no bomb timer and no explosion lifetime increases
TimersRunDown ==
    /\ \A i \in 1..Len(bombs), j \in 1..Len(bombs') :
          bombs'[j].id = bombs[i].id => bombs'[j].timer <= bombs[i].timer
    /\ \A i \in 1..Len(explosions), j \in 1..Len(explosions') :
          explosions'[j].id = explosions[i].id
              => explosions'[j].timer <= explosions[i].timer
\* the tick takes its elapsed time off every bomb and explosion it leaves
\* (a bomb reached by a blast is left with no time at all), and leaves none
\* whose time is used up: nothing is left of a bomb but its detonation, and
\* nothing of an explosion
TimersUsedUp ==
    LET dt == lastTime' - lastTime
    IN  /\ \A i \in 1..Len(bombs) :
              \/ \E j \in 1..Len(bombs') :
                    /\ bombs'[j].id = bombs[i].id
                    /\ bombs[i].timer - dt > 0
                    /\ bombs'[j].timer \in {bombs[i].timer - dt, 0}
              \/ /\ bombs[i].id \notin BombIds(bombs')
                 /\ bombs[i].id \in ev'.exploded
        /\ \A i \in 1..Len(explosions) :
              \/ \E j \in 1..Len(explosions') :
                    /\ explosions'[j].id = explosions[i].id
                    /\ explosions'[j].timer = explosions[i].timer - dt
                    /\ explosions'[j].timer > 0
              \/ explosions[i].id \notin ExplosionIds(explosions')

\* C32: while the run stays in Playing and ticks keep arriving with
\* positive elapsed time, every live bomb eventually detonates and every
\* explosion is eventually removed: each such tick takes its elapsed time
\* off every timer and leaves no bomb or explosion whose time is used up,
\* and no step ever increases a bomb timer or an explosion lifetime.
C32_TimersRunOut == [][TimersRunDown /\ (Ticked => TimersUsedUp)]_vars

\* a bomb laid during the run has detonated and its explosion is gone
C32_LaidBombRanOut ==
    /\ ~Stopped /\ bombs = <<>> /\ explosions = <<>>
    /\ player.bombsCount = 0 /\ nextId = 2 /\ ev.attemptsHeld = 1
    /\ now = Horizon

\* the kind the claim gives for a kind roll (per mille)
ClaimedKind(r) ==
    CASE r <= 600 -> "BOMB_UP"
      [] r > 600 /\ r <= 800 -> "FIRE_UP"
      [] r > 800 /\ r <= 900 -> "SPEED_UP"
      [] r > 900 /\ r <= 960 -> "TIME_BONUS"
      [] r > 960 -> "SUPER_BOMB"
\* the number of kind rolls that give the kind
Weight(kind) == Cardinality({r \in KindRolls : PowerUpKind(r) = kind})

\* C33: a destroyed soft wall with spawn roll < 0.35 drops one power-up of
\* the kind BombUp for a kind roll r <= 0.60, FireUp for 0.60 < r <= 0.80,
\* SpeedUp for 0.80 < r <= 0.90, TimeBonus for 0.90 < r <= 0.96, SuperBomb
\* for r > 0.96, the kinds in this order being strictly less and less
\* probable; with spawn roll >= 0.35 it drops none; the score rises by 10.
C33_PowerUpKindSelection ==
    \A d \in ev.rolls :
        /\ score = d.score + 10
        /\ grid[d.row][d.col] = EMPTY
        /\ IF d.spawn < 350
              THEN powerUps = Append(d.powerUps, [col |-> d.col, row |-> d.row,
                                                  type |-> ClaimedKind(d.kind)])
              ELSE powerUps = d.powerUps
        /\ d.kind = 0 =>
              /\ Weight("BOMB_UP") > Weight("FIRE_UP")
              /\ Weight("FIRE_UP") > Weight("SPEED_UP")
              /\ Weight("SPEED_UP") > Weight("TIME_BONUS")
              /\ Weight("TIME_BONUS") > Weight("SUPER_BOMB")
              /\ Weight("SUPER_BOMB") > 0

\* the rarest kind was dropped
C33_SuperBombDropped ==
    /\ \E d \in ev.rolls : d.spawn = 349 /\ d.kind = 961
    /\ Len(powerUps) = 1 /\ powerUps[1].type = "SUPER_BOMB"

\* C34: in every reachable state at most one of the flags LevelComplete,
\* GameOver and Victory is set.
C34_RunFlagsExclusive ==
    /\ ~(isLevelComplete /\ isGameOver)
    /\ ~(isLevelComplete /\ isVictory)
    /\ ~(isGameOver /\ isVictory)

\* C35: in every reachable state player.bombsCount is the number of live
\* bombs owned by the player, also right after a level transition and
\* after a restart.
C35_BombsCountIsLiveBombs ==
    player.bombsCount =
        Cardinality({i \in 1..Len(bombs) : bombs[i].ownerId = "player"})

\* a respawn callback runs that a death before the last initLevel scheduled
StaleRespawn ==
    /\ timers # <<>> /\ Len(timers') < Len(timers)
    /\ timers[1] - RESPAWN_DELAY_MS <= ev.startedAt

\* C36: a respawn scheduled by a death in one level or run has no effect on
\* a later one: after proceedToNextLevel or restartGame a respawn callback
\* scheduled before the transition changes neither the player's position
\* nor its dead flag nor its invulnerability deadline.
C36_StaleRespawnHasNoEffect ==
    [][StaleRespawn =>
          /\ player'.x = player.x /\ player'.y = player.y
          /\ player'.isDead = player.isDead
          /\ player'.invulnerableUntil = player.invulnerableUntil]_vars

\* the cell <<col, row>> is Empty and holds none of the bombs handed to findPath
OpenCell(c) ==
    /\ c[1] >= 0 /\ c[1] < GRID_COLS /\ c[2] >= 0 /\ c[2] < GRID_ROWS
    /\ pf.grid[c[2]][c[1]] = EMPTY
    /\ \A i \in 1..Len(pf.bombPoints) :
          ~(pf.bombPoints[i].col = c[1] /\ pf.bombPoints[i].row = c[2])
StepsFrom(c) ==
    {<<c[1] + 1, c[2]>>, <<c[1] - 1, c[2]>>, <<c[1], c[2] + 1>>, <<c[1], c[2] - 1>>}
\* the cells of the walks from the cells `seen` through open cells, `edge`
\* being the cells of `seen` reached last
RECURSIVE WalkCells(_, _)
WalkCells(seen, edge) ==
    LET more == {c \in UNION {StepsFrom(e) : e \in edge} : OpenCell(c)} \ seen
    IN  IF more = {} THEN seen ELSE WalkCells(seen \cup more, more)
GoalReachable ==
    <<pf.target.col, pf.target.row>>
        \in WalkCells({<<pf.start.col, pf.start.row>>}, {<<pf.start.col, pf.start.row>>})

\* C37: on the 15x13 grid findPath never returns at its 500-iteration cap:
\* it returns none only if the goal is not reachable from the start through
\* walkable (Empty, bomb-free) cells, and a path whenever it is reachable.
C37_CapNeverReached ==
    pf.called =>
        /\ ~pf.capped /\ pf.iterations <= MAX_ITERATIONS
        /\ pf.result.found <=> GoalReachable

\* a search that ran the reachable cells dry before it returned none
C37_SearchedToTheEnd ==
    /\ pf.called /\ ~pf.result.found /\ ~GoalReachable
    /\ pf.iterations > 60

\* the number of steps of a shortest walk from the start cell to the goal
\* whose cells after the start are open, -1 if there is none; `edge` holds
\* the cells n steps away, `seen` the cells at most n steps away
RECURSIVE HopsToGoal(_, _, _)
HopsToGoal(seen, edge, n) ==
    IF <<pf.target.col, pf.target.row>> \in edge THEN n
    ELSE LET more == {c \in UNION {StepsFrom(e) : e \in edge} : OpenCell(c)} \ seen
         IN  IF more = {} THEN -1 ELSE HopsToGoal(seen \cup more, more, n + 1)
ShortestHops ==
    HopsToGoal({<<pf.start.col, pf.start.row>>}, {<<pf.start.col, pf.start.row>>}, 0)
Adjacent4(a, b) == Abs(a.col - b.col) + Abs(a.row - b.row) = 1

\* C38: with walls and bombs present, a path returned by findPath is a
\* sequence of pairwise 4-adjacent cells from the start cell to the goal
\* cell, and its hop count is the least of all walks from start to goal
\* through walkable cells.
C38_ReturnedPathIsShortest ==
    pf.called /\ pf.result.found =>
        /\ pf.result.path[1] = pf.start
        /\ pf.result.path[Len(pf.result.path)] = pf.target
        /\ \A i \in 1..(Len(pf.result.path) - 1) :
              Adjacent4(pf.result.path[i], pf.result.path[i + 1])
        /\ Len(pf.result.path) - 1 = ShortestHops

\* a shortest path that goes round walls and bombs, from a walkable start
C38_DetourFound ==
    /\ pf.called /\ pf.result.found
    /\ pf.grid # OpenGrid /\ pf.bombPoints # <<>>
    /\ OpenCell(<<pf.start.col, pf.start.row>>)
    /\ Len(pf.result.path) - 1 = ShortestHops
    /\ ShortestHops >= Heuristic(pf.start.col, pf.start.row,
                                 pf.target.col, pf.target.row) + 2

\* C39: collecting a power-up never decreases the player's blast range, bomb
\* capacity or speed; each pickup adds exactly 50 to the score and removes
\* that power-up, and the speed never exceeds 9.
C39_UpgradesMonotone ==
    [][/\ player'.bombRange >= player.bombRange
       /\ player'.maxBombs >= player.maxBombs
       /\ player'.speed >= player.speed
       /\ player'.speed <= MilliPx(MAX_PLAYER_SPEED)
       /\ score' = score + 50
       /\ powerUps' = powerUps]_vars

\* C40: every stats snapshot handed to the stats callback, from a tick, from
\* the respawn callback or from proceedToNextLevel, carries timeLeft >= 0 and
\* lives >= 0, also after the level countdown has run out.
C40_StatsNonNegative == stats.timeLeft >= 0 /\ stats.lives >= 0
====
